---- MODULE Spec2Model ----
(***************************************************************************)
(* Model of the credit-pathway admin dashboard's data layer: the services  *)
(* that write the Auth/Firestore stores (userService, supportTickets-      *)
(* Service), the data hooks that fetch through them, and the pure          *)
(* aggregation helpers (date ranges, deltas, distributions, CSV export).   *)
(*                                                                         *)
(* Every asynchronous service function is split at its awaits: one action  *)
(* per awaited store call and outcome.  Store failures (network, missing   *)
(* index, permission) are nondeterministic.                                *)
(***************************************************************************)
EXTENDS Integers, Sequences, FiniteSets, TLC

VARIABLES
  authAccounts,   \* Firebase Auth: set of e-mails that own an account
  users,          \* Firestore "users": set of uids that have a document
  cu,             \* createUser calls: call id -> record
  threads,        \* Firestore "supportThreads": thread id -> document
  messages,       \* "supportThreads/{id}/messages": thread id -> Seq(doc)
  clock,          \* Firestore server clock (serverTimestamp())
  rp,             \* handleSendReply / sendAdminReply calls: id -> record
  hook,           \* one data hook instance (useUserJourneys shape)
  args,           \* arguments of the pure function under evaluation
  ret,            \* its result
  content,        \* Firestore "articles" and "educationContent": id -> document
  page,           \* state of the mounted page or modal component
  wc              \* calls of the store-writing service functions: id -> record

vars == <<authAccounts, users, cu, threads, messages, clock, rp, hook, args, ret,
          content, page, wc>>

usersVars == <<authAccounts, users, cu>>
replyVars == <<threads, messages, clock, rp>>
pureVars  == <<args, ret>>
contentVars == <<content, page, wc>>

None == "none"

\* ret is <<>> until the function under evaluation has returned, then <<value>>.
Returned == ret # <<>>
Result == ret[1]

\* Values of the variable groups a specification does not use.
UsersUnused == authAccounts = {} /\ users = {} /\ cu = <<>>
ReplyUnused == threads = <<>> /\ messages = <<>> /\ clock = 0 /\ rp = <<>>
HookUnused  == hook = None
PureUnused  == args = None /\ ret = <<>>
ContentUnused == content = <<>> /\ page = None /\ wc = <<>>

(***************************************************************************)
(* userService.createUser                                                  *)
(***************************************************************************)
MaxCreateCalls == 2
CreateCalls == 1..MaxCreateCalls
Emails == {"a@x", "b@x"}

\* Auth assigns one uid per account; accounts are never deleted by this
\* layer, so the uid is identified with the account's e-mail.
UidOf(email) == email

\* auth/* failure codes createUserWithEmailAndPassword can reject with,
\* besides auth/email-already-in-use which the account set decides.
AuthErrors == {"auth/invalid-email", "auth/weak-password", "auth/network-request-failed"}

\* catch block of createUser: vendor code -> user-facing message.
CreateUserMessage(code) ==
  CASE code = "auth/email-already-in-use" -> "An account already exists with this email address."
    [] code = "auth/invalid-email" -> "Invalid email address."
    [] code = "auth/weak-password" -> "Password should be at least 6 characters."
    [] OTHER -> code

IdleCall == [pc |-> "idle", email |-> None, uid |-> None, thrown |-> None,
             authCreates |-> 0, docWrites |-> 0]

\* createUser(userData) is entered: the Auth request is issued.
CreateUserCall(c, email) ==
  /\ cu[c].pc = "idle"
  /\ cu' = [cu EXCEPT ![c] = [@ EXCEPT !.pc = "auth", !.email = email,
                                        !.authCreates = @ + 1]]
  /\ UNCHANGED <<authAccounts, users>>

\* Step 1 resolves: the account exists, uid is known, setDoc is issued.
CreateUserAuthOk(c) ==
  /\ cu[c].pc = "auth"
  /\ cu[c].email \notin authAccounts
  /\ authAccounts' = authAccounts \cup {cu[c].email}
  /\ cu' = [cu EXCEPT ![c] = [@ EXCEPT !.pc = "setDoc", !.uid = UidOf(cu[c].email),
                                        !.docWrites = @ + 1]]
  /\ UNCHANGED users

\* Step 1 rejects: control goes to the catch block, which throws.
CreateUserAuthFails(c) ==
  /\ cu[c].pc = "auth"
  /\ \E code \in AuthErrors \cup {"auth/email-already-in-use"} :
       /\ (code = "auth/email-already-in-use") => cu[c].email \in authAccounts
       /\ (cu[c].email \in authAccounts) =>
            code \in {"auth/email-already-in-use", "auth/network-request-failed"}
       /\ cu' = [cu EXCEPT ![c] = [@ EXCEPT !.pc = "failed",
                                            !.thrown = CreateUserMessage(code)]]
  /\ UNCHANGED <<authAccounts, users>>

\* Step 4 resolves: the users document is written and the uid returned.
CreateUserSetDocOk(c) ==
  /\ cu[c].pc = "setDoc"
  /\ users' = users \cup {cu[c].uid}
  /\ cu' = [cu EXCEPT ![c] = [@ EXCEPT !.pc = "done"]]
  /\ UNCHANGED authAccounts

\* A createUser that undoes the account when the document write fails.
CreateUserSetDocFailsCompensating(c) ==
  /\ cu[c].pc = "setDoc"
  /\ authAccounts' = authAccounts \ {cu[c].email}
  /\ cu' = [cu EXCEPT ![c] = [@ EXCEPT !.pc = "failed", !.thrown = "unavailable"]]
  /\ UNCHANGED users

\* Step 4 rejects: the catch block rethrows; nothing else is done.
CreateUserSetDocFails(c) ==
  /\ cu[c].pc = "setDoc"
  /\ cu' = [cu EXCEPT ![c] = [@ EXCEPT !.pc = "failed", !.thrown = "unavailable"]]
  /\ UNCHANGED <<authAccounts, users>>

InitUsers ==
  /\ \E pre \in SUBSET Emails :
       /\ authAccounts = pre
       /\ users = {UidOf(e) : e \in pre}
  /\ cu = [c \in CreateCalls |-> IdleCall]

Init ==
  /\ InitUsers
  /\ ReplyUnused /\ ContentUnused /\ HookUnused /\ PureUnused

Next ==
  \/ \E c \in CreateCalls, e \in Emails : CreateUserCall(c, e) /\ UNCHANGED <<replyVars, contentVars, hook, pureVars>>
  \/ \E c \in CreateCalls : CreateUserAuthOk(c) /\ UNCHANGED <<replyVars, contentVars, hook, pureVars>>
  \/ \E c \in CreateCalls : CreateUserAuthFails(c) /\ UNCHANGED <<replyVars, contentVars, hook, pureVars>>
  \/ \E c \in CreateCalls : CreateUserSetDocOk(c) /\ UNCHANGED <<replyVars, contentVars, hook, pureVars>>
  \/ \E c \in CreateCalls : CreateUserSetDocFails(c) /\ UNCHANGED <<replyVars, contentVars, hook, pureVars>>

Spec == Init /\ [][Next]_vars

\* C1: when createUser's account creation succeeded and the users-document
\* write failed, createUser has thrown, the account is still there (no
\* compensating deletion), the document write was attempted exactly once
\* (no retry) and no users document matches the account; when the account
\* creation itself failed, no document write was attempted.
C1_PartialUserCreation ==
  \A c \in CreateCalls :
    cu[c].pc = "failed" =>
      /\ cu[c].thrown # None
      /\ cu[c].authCreates = 1
      /\ IF cu[c].uid # None
           THEN /\ cu[c].email \in authAccounts
                /\ cu[c].uid \notin users
                /\ cu[c].docWrites = 1
           ELSE cu[c].docWrites = 0

C1_Witness ==
  \E c \in CreateCalls :
    /\ cu[c].pc = "failed" /\ cu[c].uid # None
    /\ cu[c].email \in authAccounts /\ cu[c].uid \notin users

(***************************************************************************)
(* supportTicketsService.sendAdminReply, called from                       *)
(* useSupportThreadMessages.handleSendReply                                *)
(***************************************************************************)
MaxReplyCalls == 2
ReplyCalls == 1..MaxReplyCalls
ThreadIds == {"u1", "u2"}

\* Reply texts are character sequences, so that String.prototype.trim acts.
Texts == { <<"h">>, <<" ", "y">>, <<"h", " ">>, <<" ">> }

IsSpace(ch) == ch = " "

RECURSIVE TrimStart(_)
TrimStart(t) == IF t # <<>> /\ IsSpace(Head(t)) THEN TrimStart(Tail(t)) ELSE t

RECURSIVE TrimEnd(_)
TrimEnd(t) ==
  IF t # <<>> /\ IsSpace(t[Len(t)]) THEN TrimEnd(SubSeq(t, 1, Len(t) - 1)) ELSE t

\* text.trim()
Trim(t) == TrimEnd(TrimStart(t))

\* msgId: the id addDoc gave the reply's message; summaryAt: the server time
\* of the reply's summary update; both empty until the write is applied.
IdleReply == [pc |-> "idle", threadId |-> None, text |-> <<>>, thrown |-> None,
              appends |-> 0, updates |-> 0, msgId |-> {}, summaryAt |-> {}]

\* The subcollection of thread th holds a message document with this id.
HasMessage(th, id) == \E i \in 1..Len(messages[th]) : messages[th][i].id = id

\* handleSendReply(text): the guard returns without calling the service;
\* otherwise sendAdminReply is entered and its addDoc is issued.
HandleSendReply(r, th, text) ==
  /\ rp[r].pc = "idle"
  /\ rp' = [rp EXCEPT ![r] =
       IF th = None \/ Trim(text) = <<>>
         THEN [@ EXCEPT !.pc = "returned", !.threadId = th, !.text = text]
         ELSE [@ EXCEPT !.pc = "addDoc", !.threadId = th, !.text = text,
                        !.appends = @ + 1]]
  /\ UNCHANGED <<threads, messages, clock>>

\* await addDoc(messagesRef, {...}) resolves; updateDoc is issued next.
SendAdminReplyAddDocOk(r) ==
  /\ rp[r].pc = "addDoc"
  /\ clock' = clock + 1
  /\ messages' = [messages EXCEPT ![rp[r].threadId] =
       Append(@, [id |-> clock', userId |-> rp[r].threadId, sender |-> "admin",
                  text |-> Trim(rp[r].text), createdAt |-> clock'])]
  /\ rp' = [rp EXCEPT ![r] = [@ EXCEPT !.pc = "updateDoc", !.msgId = {clock'},
                                        !.updates = @ + 1]]
  /\ UNCHANGED threads

\* A sendAdminReply that writes the thread summary before the message.
SendAdminReplyAddDocFailsSummaryFirst(r) ==
  /\ rp[r].pc = "addDoc"
  /\ rp[r].threadId \in DOMAIN threads
  /\ clock' = clock + 1
  /\ threads' = [threads EXCEPT ![rp[r].threadId] =
       [@ EXCEPT !.lastMessage = Trim(rp[r].text), !.lastMessageAt = clock']]
  /\ rp' = [rp EXCEPT ![r] = [@ EXCEPT !.pc = "failed", !.thrown = "unavailable",
                                        !.summaryAt = {clock'}]]
  /\ UNCHANGED messages

\* await addDoc rejects: catch logs and rethrows; updateDoc is never issued.
SendAdminReplyAddDocFails(r) ==
  /\ rp[r].pc = "addDoc"
  /\ rp' = [rp EXCEPT ![r] = [@ EXCEPT !.pc = "failed", !.thrown = "unavailable"]]
  /\ UNCHANGED <<threads, messages, clock>>

\* await updateDoc(threadRef, {lastMessage, lastMessageAt}) resolves.
SendAdminReplyUpdateDocOk(r) ==
  /\ rp[r].pc = "updateDoc"
  /\ rp[r].threadId \in DOMAIN threads
  /\ clock' = clock + 1
  /\ threads' = [threads EXCEPT ![rp[r].threadId] =
       [@ EXCEPT !.lastMessage = Trim(rp[r].text), !.lastMessageAt = clock']]
  /\ rp' = [rp EXCEPT ![r] = [@ EXCEPT !.pc = "done", !.summaryAt = {clock'}]]
  /\ UNCHANGED messages

\* A sendAdminReply that removes its message when the summary update fails.
SendAdminReplyUpdateDocFailsRollback(r) ==
  /\ rp[r].pc = "updateDoc"
  /\ messages' = [messages EXCEPT ![rp[r].threadId] =
       SelectSeq(@, LAMBDA m : m.id \notin rp[r].msgId)]
  /\ rp' = [rp EXCEPT ![r] = [@ EXCEPT !.pc = "failed", !.thrown = "unavailable"]]
  /\ UNCHANGED <<threads, clock>>

\* await updateDoc rejects (store failure, or not-found when the thread
\* document does not exist): catch logs and rethrows.
SendAdminReplyUpdateDocFails(r) ==
  /\ rp[r].pc = "updateDoc"
  /\ rp' = [rp EXCEPT ![r] = [@ EXCEPT !.pc = "failed",
       !.thrown = IF rp[r].threadId \notin DOMAIN threads THEN "not-found" ELSE "unavailable"]]
  /\ UNCHANGED <<threads, messages, clock>>

\* A thread the consumer app opened: one user message and its summary.
UserThread(th) == [userId |-> th, lastMessage |-> <<"q">>, lastMessageAt |-> 1]
UserMessage(th) == [id |-> 1, userId |-> th, sender |-> "user", text |-> <<"q">>,
                    createdAt |-> 1]

InitReply ==
  /\ \E present \in SUBSET ThreadIds :
       /\ threads = [th \in present |-> UserThread(th)]
       /\ messages = [th \in ThreadIds |-> IF th \in present THEN <<UserMessage(th)>> ELSE <<>>]
  /\ clock = 1
  /\ rp = [r \in ReplyCalls |-> IdleReply]

InitMessaging == InitReply /\ UsersUnused /\ ContentUnused /\ HookUnused /\ PureUnused

NextMessaging ==
  \/ \E r \in ReplyCalls, th \in ThreadIds \cup {None}, t \in Texts :
       HandleSendReply(r, th, t) /\ UNCHANGED <<usersVars, contentVars, hook, pureVars>>
  \/ \E r \in ReplyCalls : SendAdminReplyAddDocOk(r) /\ UNCHANGED <<usersVars, contentVars, hook, pureVars>>
  \/ \E r \in ReplyCalls : SendAdminReplyAddDocFails(r) /\ UNCHANGED <<usersVars, contentVars, hook, pureVars>>
  \/ \E r \in ReplyCalls : SendAdminReplyUpdateDocOk(r) /\ UNCHANGED <<usersVars, contentVars, hook, pureVars>>
  \/ \E r \in ReplyCalls : SendAdminReplyUpdateDocFails(r) /\ UNCHANGED <<usersVars, contentVars, hook, pureVars>>

SpecMessaging == InitMessaging /\ [][NextMessaging]_vars

\* The thread summary currently carries reply r's update.
SummaryShows(r) ==
  /\ rp[r].summaryAt # {}
  /\ rp[r].threadId \in DOMAIN threads
  /\ threads[rp[r].threadId].lastMessageAt \in rp[r].summaryAt
  /\ threads[rp[r].threadId].lastMessage = Trim(rp[r].text)

\* Reply r's message document is in the messages subcollection.
MessagePresent(r) == \E id \in rp[r].msgId : HasMessage(rp[r].threadId, id)

\* sendAdminReply failed after one of its two writes had been applied.
PartialFailure(r) ==
  rp[r].pc = "failed" /\ (rp[r].msgId # {} \/ rp[r].summaryAt # {})

ViceVersa(r) == SummaryShows(r) /\ ~MessagePresent(r)

C2_State ==
  \A r \in ReplyCalls :
    /\ rp[r].appends <= 1 /\ rp[r].updates <= 1
    \* the summary update is issued only after the append has succeeded
    /\ rp[r].updates = 1 => rp[r].appends = 1 /\ rp[r].msgId # {}
    /\ rp[r].summaryAt # {} => MessagePresent(r)
    \* exactly one message per reply that got past the append
    /\ rp[r].msgId # {} =>
         Cardinality({i \in 1..Len(messages[rp[r].threadId]) :
                        messages[rp[r].threadId][i].id \in rp[r].msgId}) = 1
    /\ rp[r].pc = "failed" =>
         /\ rp[r].thrown # None
         /\ rp[r].summaryAt = {}
         /\ rp[r].msgId = {} => rp[r].updates = 0
         /\ rp[r].msgId # {} => MessagePresent(r) /\ ~SummaryShows(r)

C2_Step ==
  \A r \in ReplyCalls :
    (rp[r].pc \in {"addDoc", "updateDoc"} /\ rp'[r].pc = "failed") =>
      /\ threads' = threads
      /\ messages' = messages
      /\ rp'[r].appends = rp[r].appends /\ rp'[r].updates = rp[r].updates

\* C2: sendAdminReply appends exactly one message and only afterwards
\* updates lastMessage/lastMessageAt; a failed append leaves the summary (and
\* the subcollection) unchanged and issues no update; a failed update leaves
\* the new message in place and the summary stale, and the error is rethrown
\* with no rollback and no retry.
C2_AppendThenSummary == []C2_State /\ [][C2_Step]_vars

C2_Witness ==
  \E r \in ReplyCalls :
    /\ rp[r].pc = "failed" /\ MessagePresent(r) /\ ~SummaryShows(r)
    /\ rp[r].threadId \in DOMAIN threads

C23_LastMessageIsLastAppended ==
  \A r, s \in ReplyCalls :
    (r # s /\ rp[r].pc = "done" /\ rp[s].pc = "done"
     /\ rp[r].threadId = rp[s].threadId) =>
      LET th == rp[r].threadId
      IN threads[th].lastMessage = messages[th][Len(messages[th])].text

MaxFetches == 3
FetchIds == 1..MaxFetches
Ranges == {"last_7_days", "last_30_days", "all_time"}

\* What getUserJourneys(range) resolves with, named by the range it read.
JourneysOf(range) == <<"journeys", range>>

\* A fetch function that drops the calls still in flight before it starts.
StartFetchSuperseding(h, range) ==
  [h EXCEPT !.loading = TRUE, !.error = None, !.started = @ + 1,
            !.inflight = {[id |-> h.started + 1, range |-> range]}]

\* fetchJourneys up to its await: setLoading(true); setError(null); the
\* service call is issued and joins the calls in flight.
StartFetch(h, range) ==
  [h EXCEPT !.loading = TRUE, !.error = None, !.started = @ + 1,
            !.inflight = @ \cup {[id |-> h.started + 1, range |-> range]}]

\* The parent passes a new dateRange: fetchJourneys is re-created
\* (useCallback [dateRange]) and the effect calls it.
HookSetRange(range) ==
  /\ hook.started < MaxFetches
  /\ range # hook.dateRange
  /\ hook' = StartFetch([hook EXCEPT !.dateRange = range], range)

\* refetch() is called by the consumer.
HookRefetch ==
  /\ hook.started < MaxFetches
  /\ hook' = StartFetch(hook, hook.dateRange)

\* A resolving fetch that applies its data only when its range is still the
\* selected one.
HookFetchResolvesIfCurrent(f) ==
  /\ f \in hook.inflight
  /\ hook' = [hook EXCEPT !.journeys = IF f.range = hook.dateRange
                                         THEN JourneysOf(f.range) ELSE @,
                          !.loading = FALSE, !.inflight = @ \ {f}]

\* await getUserJourneys resolves: setJourneys(data); finally setLoading(false).
HookFetchResolves(f) ==
  /\ f \in hook.inflight
  /\ hook' = [hook EXCEPT !.journeys = JourneysOf(f.range), !.loading = FALSE,
                          !.inflight = @ \ {f}]

\* await getUserJourneys rejects: setError(message); setJourneys([]);
\* finally setLoading(false).
HookFetchRejects(f) ==
  /\ f \in hook.inflight
  /\ hook' = [hook EXCEPT !.error = "Failed to load user journeys",
                          !.journeys = <<>>, !.loading = FALSE,
                          !.inflight = @ \ {f}]

\* After the first render and its effect: one fetch in flight.
InitHook ==
  \E range \in Ranges :
    hook = StartFetch([dateRange |-> range, journeys |-> <<>>, loading |-> TRUE,
                       error |-> None, inflight |-> {}, started |-> 0], range)

InitHooks == InitHook /\ UsersUnused /\ ContentUnused /\ ReplyUnused /\ PureUnused

NextHooks ==
  \/ \E range \in Ranges : HookSetRange(range) /\ UNCHANGED <<usersVars, contentVars, replyVars, pureVars>>
  \/ HookRefetch /\ UNCHANGED <<usersVars, contentVars, replyVars, pureVars>>
  \/ \E f \in hook.inflight : HookFetchResolves(f) /\ UNCHANGED <<usersVars, contentVars, replyVars, pureVars>>
  \/ \E f \in hook.inflight : HookFetchRejects(f) /\ UNCHANGED <<usersVars, contentVars, replyVars, pureVars>>

SpecHooks == InitHooks /\ [][NextHooks]_vars

\* C4 as stated: at most one fetch of a hook instance is in flight at any
\* time, whatever the dependency changes and refetch calls.
C4_AtMostOneInFlight == Cardinality(hook.inflight) <= 1

C4_Step ==
  \/ \* a trigger starts exactly one fetch and leaves the earlier ones running
     /\ hook'.started = hook.started + 1
     /\ hook.inflight \subseteq hook'.inflight
     /\ Cardinality(hook'.inflight) = Cardinality(hook.inflight) + 1
  \/ \* a settling fetch leaves, no fetch starts
     /\ hook'.started = hook.started
     /\ hook'.inflight \subseteq hook.inflight
     /\ Cardinality(hook'.inflight) = Cardinality(hook.inflight) - 1

\* C4 (amended): each trigger (mount, dependency change, refetch call)
\* starts exactly one fetch and nothing else starts one, and a fetch still in
\* flight is neither cancelled nor waited for: the number in flight is at
\* most the number of triggers so far, and is at most one only while no
\* trigger arrives during a fetch.
C4_OneFetchPerTrigger ==
  /\ [](Cardinality(hook.inflight) <= hook.started)
  /\ [][C4_Step]_vars

C4_Witness ==
  /\ Cardinality(hook.inflight) = 2
  /\ \E f, g \in hook.inflight : f.range # g.range

C22_Step ==
  \/ hook.inflight \subseteq hook'.inflight
  \/ \E f \in hook.inflight :
       /\ hook'.inflight = hook.inflight \ {f}
       /\ hook'.dateRange = hook.dateRange
       /\ \/ hook'.journeys = JourneysOf(f.range) /\ hook'.error = hook.error
          \/ hook'.journeys = <<>> /\ hook'.error # None

\* C22: a started fetch is never cancelled or superseded: a fetch leaves the
\* set in flight only by settling, and when it settles it writes its own
\* outcome (the data of the range it was started with, or an error) to the
\* hook state, whatever range is selected by then, so the last fetch to
\* settle decides what the hook holds.
C22_OutcomesApplyInCompletionOrder == [][C22_Step]_vars

\* The range went from A to B, both fetches resolved, A's last: the hook
\* holds A's data while B is selected.
C22_Witness ==
  /\ hook.inflight = {} /\ hook.started >= 2 /\ hook.error = None
  /\ \E range \in Ranges \ {hook.dateRange} : hook.journeys = JourneysOf(range)

(***************************************************************************)
(* JavaScript Date, in the executing machine's local civil time.  An       *)
(* instant is [day, ms]: the day number counted from 1 January of          *)
(* EpochYear and the millisecond within that day.  Daylight-saving shifts  *)
(* are outside the model.                                                  *)
(***************************************************************************)
MsPerDay == 86400000
EpochYear == 2000
EndOfDay == MsPerDay - 1

IsLeap(y) == (y % 4 = 0 /\ y % 100 # 0) \/ y % 400 = 0

DaysInMonth(y, m) ==
  CASE m = 1 -> IF IsLeap(y) THEN 29 ELSE 28
    [] m \in {3, 5, 8, 10} -> 30
    [] OTHER -> 31

\* Number of leap years among the years 1..y.
LeapsThrough(y) == (y \div 4) - (y \div 100) + (y \div 400)

\* Day number of 1 January of year y.
YearStart(y) ==
  365 * (y - EpochYear) + LeapsThrough(y - 1) - LeapsThrough(EpochYear - 1)

RECURSIVE MonthStart(_, _)
\* Day number of the first day of month m (0-based, as getMonth) of year y.
MonthStart(y, m) ==
  IF m = 0 THEN YearStart(y) ELSE MonthStart(y, m - 1) + DaysInMonth(y, m - 1)

\* The years the model's instants may fall in.
BaseYear == 2024
Years == (BaseYear - 1)..(BaseYear + 1)

GetFullYear(t) == CHOOSE y \in Years : YearStart(y) <= t.day /\ t.day < YearStart(y + 1)
GetMonth(t) ==
  CHOOSE m \in 0..11 :
    /\ MonthStart(GetFullYear(t), m) <= t.day
    /\ t.day < MonthStart(GetFullYear(t), m) + DaysInMonth(GetFullYear(t), m)
GetDate(t) == t.day - MonthStart(GetFullYear(t), GetMonth(t)) + 1

\* d.setHours(h, m, s, ms), given as the millisecond of the day.
SetHours(t, ms) == [t EXCEPT !.ms = ms]
\* d.setDate(n): day n of d's month, n <= 0 rolling into earlier months.
SetDate(t, n) == [t EXCEPT !.day = MonthStart(GetFullYear(t), GetMonth(t)) + n - 1]
\* d.setMonth(m, n) with 0 <= m <= 11.
SetMonth(t, m, n) == [t EXCEPT !.day = MonthStart(GetFullYear(t), m) + n - 1]
\* d.setFullYear(EpochYear, 0, 1)
SetFullYearEpoch(t) == [t EXCEPT !.day = 0]

\* a < b, a <= b on instants (Date comparison compares getTime()).
Before(a, b) == a.day < b.day \/ (a.day = b.day /\ a.ms < b.ms)
NotAfter(a, b) == a = b \/ Before(a, b)
Within(t, start, end) == NotAfter(start, t) /\ NotAfter(t, end)

\* b.getTime() - a.getTime() for a <= b, as whole days and milliseconds.
Duration(a, b) ==
  IF b.ms >= a.ms THEN [days |-> b.day - a.day, ms |-> b.ms - a.ms]
  ELSE [days |-> b.day - a.day - 1, ms |-> b.ms - a.ms + MsPerDay]

\* d.setTime(d.getTime() - duration)
MinusDuration(t, dur) ==
  IF t.ms >= dur.ms THEN [day |-> t.day - dur.days, ms |-> t.ms - dur.ms]
  ELSE [day |-> t.day - dur.days - 1, ms |-> t.ms - dur.ms + MsPerDay]

OneMs == [days |-> 0, ms |-> 1]
Days(n) == [days |-> n, ms |-> 0]

(***************************************************************************)
(* The date-range resolvers.  now is the instant new Date() returns.       *)
(***************************************************************************)
\* The part the four resolvers share: the switch over the bounded ranges.
\* Returns start before the trailing setHours of each resolver.
SwitchStart(range, now) ==
  CASE range = "last_7_days" -> SetDate(now, GetDate(now) - 7)
    [] range = "last_30_days" -> SetDate(now, GetDate(now) - 30)
    [] range = "this_month" -> SetHours(SetDate(now, 1), 0)
    [] range = "this_quarter" -> SetHours(SetMonth(now, (GetMonth(now) \div 3) * 3, 1), 0)
    [] OTHER -> now

\* A dashboard resolver whose guard also skips the last-N-days ranges.
DashboardDateRangeNoMidnight(range, now) ==
  [start |-> IF range = "all_time" THEN SetHours(SetFullYearEpoch(now), 0)
             ELSE SwitchStart(range, now),
   end |-> SetHours(now, EndOfDay)]

\* dashboardService.getDateRange
DashboardDateRange(range, now) ==
  LET start == IF range = "all_time" THEN SetHours(SetFullYearEpoch(now), 0)
               ELSE SwitchStart(range, now)
  IN [start |-> IF range \notin {"all_time", "this_month", "this_quarter"}
                  THEN SetHours(start, 0) ELSE start,
      end |-> SetHours(now, EndOfDay)]

\* analyticsService.calculateDateRange without custom dates ("custom" then
\* falls back to the last 7 days).
CalculateDateRange(range, now) ==
  LET start == IF range = "custom" THEN SetDate(now, GetDate(now) - 7)
               ELSE SwitchStart(range, now)
  IN [start |-> SetHours(start, 0), end |-> SetHours(now, EndOfDay)]

\* The null range: no date filtering.
NullRange == [null |-> TRUE]

\* userJourneyService.getDateRange: null for all_time.
JourneyDateRange(range, now) ==
  IF range = "all_time" THEN NullRange
  ELSE [start |-> SetHours(SwitchStart(range, now), 0), end |-> SetHours(now, EndOfDay)]

\* A resolver without the all_time early return: the switch matches no case.
TicketsDateRangeNoEarlyReturn(range, now) ==
  [start |-> SetHours(SwitchStart(range, now), 0), end |-> SetHours(now, EndOfDay)]

\* supportTicketsService.getDateRange: {start: null, end: null} for all_time.
TicketsDateRange(range, now) ==
  IF range = "all_time" THEN NullRange
  ELSE [start |-> SetHours(SwitchStart(range, now), 0), end |-> SetHours(now, EndOfDay)]

Resolvers == {"dashboard", "analytics", "journeys", "tickets"}
BoundedRanges == {"last_7_days", "last_30_days", "this_month", "this_quarter"}

Resolve(resolver, range, now) ==
  CASE resolver = "dashboard" -> DashboardDateRange(range, now)
    [] resolver = "analytics" -> CalculateDateRange(range, now)
    [] resolver = "journeys" -> JourneyDateRange(range, now)
    [] resolver = "tickets" -> TicketsDateRange(range, now)

\* The current instants tried: the first MaxNowDay days of BaseYear, at
\* midnight, one millisecond later, midday and the last millisecond.
MaxNowDay == 100
NowDays == YearStart(BaseYear)..(YearStart(BaseYear) + MaxNowDay)
NowMs == {0, 1, MsPerDay \div 2, EndOfDay}
Nows == [day : NowDays, ms : NowMs]

InitRanges ==
  /\ args \in [resolver : Resolvers, range : BoundedRanges, now : Nows]
  /\ ret = <<>>
  /\ UsersUnused /\ ContentUnused /\ ReplyUnused /\ HookUnused

ResolveRange ==
  /\ ~Returned
  /\ ret' = <<Resolve(args.resolver, args.range, args.now)>>
  /\ UNCHANGED <<args, usersVars, contentVars, replyVars, hook>>

NextRanges == ResolveRange

SpecRanges == InitRanges /\ [][NextRanges]_vars

\* The start day each bounded range is documented to compute.
StartDayOf(range, now) ==
  CASE range = "last_7_days" -> now.day - 7
    [] range = "last_30_days" -> now.day - 30
    [] range = "this_month" -> now.day - (GetDate(now) - 1)
    [] range = "this_quarter" ->
         MonthStart(GetFullYear(now), 3 * (GetMonth(now) \div 3))

\* C8: for last_7_days, last_30_days, this_month and this_quarter and every
\* current instant, every resolver returns end = today 23:59:59.999 and
\* start = 00:00:00.000 of the computed start day, so start <= end.
C8_EndOfTodayMidnightStart ==
  Returned =>
    /\ Result.end = [day |-> args.now.day, ms |-> EndOfDay]
    /\ Result.start = [day |-> StartDayOf(args.range, args.now), ms |-> 0]
    /\ NotAfter(Result.start, Result.end)

C8_Witness ==
  /\ Returned
  /\ args.range = "this_quarter" /\ args.resolver = "dashboard"
  /\ args.now.ms = MsPerDay \div 2
  /\ GetMonth(args.now) = 1 /\ GetDate(args.now) = 29
  /\ Result.start.day = YearStart(GetFullYear(args.now))

(***************************************************************************)
(* dashboardService.getDashboardStats: the user-count metrics.             *)
(* A users document is [createdAt, updatedAt], each the set holding the    *)
(* field's instant, empty when the field is absent.  env says which store  *)
(* reads succeed: the range queries on each field, and collection scans.   *)
(***************************************************************************)
\* dashboardService.getPreviousPeriodRange
GetPreviousPeriodRange(range, now) ==
  LET current == DashboardDateRange(range, now)
      duration == Duration(current.start, current.end)
      previousEnd == SetHours(MinusDuration(current.start, OneMs), EndOfDay)
      previousStart == SetHours(MinusDuration(previousEnd, duration), 0)
  IN IF range = "all_time" THEN current
     ELSE [start |-> previousStart, end |-> previousEnd]

\* query(usersRef, where(field, ">=", start), where(field, "<=", end))
QueryRange(docs, field, start, end) ==
  {u \in DOMAIN docs : \E t \in docs[u][field] : Within(t, start, end)}

\* The full-scan test of getActiveUsers: updatedAt, else createdAt, in window.
LastActive(doc) == IF doc.updatedAt # {} THEN doc.updatedAt ELSE doc.createdAt

ScanActive(docs, start, end) ==
  {u \in DOMAIN docs : \E t \in LastActive(docs[u]) : Within(t, start, end)}

\* getActiveUsers: the ids it collects (its result is their number).  A
\* failed range query is skipped; the scan runs when no id was collected;
\* a failed scan reaches the outer catch, which returns 0.
GetActiveUserIds(docs, start, end, env) ==
  LET byUpdated == IF env.updatedAt THEN QueryRange(docs, "updatedAt", start, end) ELSE {}
      byCreated == IF env.createdAt THEN QueryRange(docs, "createdAt", start, end) ELSE {}
      userIds == byUpdated \cup byCreated
  IN IF userIds # {} THEN userIds
     ELSE IF env.scan THEN ScanActive(docs, start, end)
     ELSE {}

\* getTotalUsers(beforeDate): the createdAt < beforeDate query; when it fails
\* the scan counts the same documents.
TotalUsersBefore(docs, beforeDate) ==
  Cardinality({u \in DOMAIN docs : \E t \in docs[u].createdAt : Before(t, beforeDate)})

Thrown == [thrown |-> TRUE]

\* getDashboardStats(dateRange).  activeIds and previousActiveIds are the
\* id sets whose sizes the function returns.
GetDashboardStats(range, now, docs, env) ==
  LET current == DashboardDateRange(range, now)
      previousRange == GetPreviousPeriodRange(range, now)
      activeIds == GetActiveUserIds(docs, current.start, current.end, env)
      previousActiveIds ==
        GetActiveUserIds(docs, previousRange.start, previousRange.end, env)
  IN IF ~env.scan
       \* getTotalUsers() rethrows a failed scan and Promise.all rejects
       THEN Thrown
       ELSE [thrown |-> FALSE,
             totalUsers |-> Cardinality(DOMAIN docs),
             activeUsers |-> Cardinality(activeIds),
             activeIds |-> activeIds,
             previousPeriodStats |->
               [totalUsers |-> TotalUsersBefore(docs, current.start),
                activeUsers |-> Cardinality(previousActiveIds)],
             previousActiveIds |-> previousActiveIds]

DashboardRanges == BoundedRanges \cup {"all_time"}
UserIds == {"u1", "u2"}
\* Ages, in days before now, of the timestamps tried.
AgesInDays == {2, 10}
MaxStatsNowDay == 1
StatsNows == [day : YearStart(BaseYear)..(YearStart(BaseYear) + MaxStatsNowDay),
              ms : {0, MsPerDay \div 2}]

Ago(now, k) == MinusDuration(now, Days(k))
StampsAt(now) == {{}} \cup {{Ago(now, k)} : k \in AgesInDays}
UserDocsAt(now) == [createdAt : StampsAt(now), updatedAt : StampsAt(now)]
Envs == [updatedAt : BOOLEAN, createdAt : BOOLEAN, scan : BOOLEAN]

InitStats ==
  /\ \E now \in StatsNows, present \in SUBSET UserIds :
       args \in [range : DashboardRanges, now : {now},
                 docs : [present -> UserDocsAt(now)], env : Envs]
  /\ ret = <<>>
  /\ UsersUnused /\ ContentUnused /\ ReplyUnused /\ HookUnused

CallGetDashboardStats ==
  /\ ~Returned
  /\ ret' = <<GetDashboardStats(args.range, args.now, args.docs, args.env)>>
  /\ UNCHANGED <<args, usersVars, contentVars, replyVars, hook>>

NextStats == CallGetDashboardStats

SpecStats == InitStats /\ [][NextStats]_vars

\* The user of the scenario: created 10 days ago, updated 2 days ago.
ScenarioUser(u) ==
  /\ u \in DOMAIN args.docs
  /\ args.docs[u].createdAt = {Ago(args.now, 10)}
  /\ args.docs[u].updatedAt = {Ago(args.now, 2)}

\* C5: with range = last_7_days, a user created 10 days ago and updated 2
\* days ago is counted in totalUsers and in activeUsers of the current
\* window and is not counted in previousPeriodStats.activeUsers.  Stated for
\* the runs in which every store read succeeds.
C5_NotActiveInPreviousPeriod ==
  \A u \in UserIds :
    (/\ Returned /\ args.range = "last_7_days" /\ ScenarioUser(u)
     /\ args.env.updatedAt /\ args.env.createdAt /\ args.env.scan)
    => /\ Result.totalUsers = Cardinality(DOMAIN args.docs)
       /\ u \in Result.activeIds
       /\ u \notin Result.previousActiveIds

(***************************************************************************)
(* supportTicketsService.getSupportTickets.  A thread document is          *)
(* [lastMessageAt, createdAt], each the set holding the field's instant.   *)
(* Thread ids are numbered in document-id order, the order of the          *)
(* snapshot.  unmapped is the set of threads whose mapThreadToTicket       *)
(* catches a failure (its messages read rejects) and returns null.         *)
(***************************************************************************)
MaxTicketThreads == 2
TicketThreadIds == 1..MaxTicketThreads

\* threadData.lastMessageAt || threadData.createdAt
ThreadTime(doc) == IF doc.lastMessageAt # {} THEN doc.lastMessageAt ELSE doc.createdAt

\* The date filter of the loop: TRUE when the thread is kept.
PassesDateFilter(doc, dateRange) ==
  IF dateRange = NullRange THEN TRUE
  ELSE \E t \in ThreadTime(doc) : Within(t, dateRange.start, dateRange.end)

\* The comparator of tickets.sort: negative when a sorts before b.
\* Millisecond differences are compared, not subtracted.
TicketOrder(a, b, docs) ==
  LET aTime == ThreadTime(docs[a])
      bTime == ThreadTime(docs[b])
  IN CASE aTime = {} /\ bTime = {} -> 0
       [] aTime = {} -> 1
       [] bTime = {} -> -1
       [] OTHER -> LET at == CHOOSE t \in aTime : TRUE
                       bt == CHOOSE t \in bTime : TRUE
                   IN IF Before(bt, at) THEN -1 ELSE IF Before(at, bt) THEN 1 ELSE 0

RECURSIVE InsertTicket(_, _, _)
\* Stable insertion of id after every element that does not sort after it.
InsertTicket(sorted, id, docs) ==
  IF sorted = <<>> THEN <<id>>
  ELSE IF TicketOrder(Head(sorted), id, docs) <= 0
         THEN <<Head(sorted)>> \o InsertTicket(Tail(sorted), id, docs)
         ELSE <<id>> \o sorted

RECURSIVE SortTickets(_, _)
\* Array.prototype.sort (stable) with TicketOrder.
SortTickets(ids, docs) ==
  IF ids = <<>> THEN <<>>
  ELSE InsertTicket(SortTickets(SubSeq(ids, 1, Len(ids) - 1), docs), ids[Len(ids)], docs)

RECURSIVE CollectTickets(_, _, _, _)
\* The for loop over threadsSnapshot.docs, from thread id upwards.
CollectTickets(id, docs, dateRange, unmapped) ==
  IF id > MaxTicketThreads THEN <<>>
  ELSE (IF id \in DOMAIN docs /\ PassesDateFilter(docs[id], dateRange) /\ id \notin unmapped
          THEN <<id>> ELSE <<>>)
       \o CollectTickets(id + 1, docs, dateRange, unmapped)

\* getSupportTickets(dateRange): the ids of the tickets returned, in order.
GetSupportTickets(range, now, docs, env) ==
  IF ~env.scan THEN Thrown
  ELSE [thrown |-> FALSE,
        tickets |-> SortTickets(
          CollectTickets(1, docs, TicketsDateRange(range, now), env.unmapped), docs)]

\* Ages, in days before now, of the thread timestamps tried.
ThreadAgesInDays == {3, 400}
ThreadStampsAt(now) == {{}} \cup {{Ago(now, k)} : k \in ThreadAgesInDays}
ThreadDocsAt(now) == [lastMessageAt : ThreadStampsAt(now), createdAt : ThreadStampsAt(now)]

InitTickets ==
  /\ \E now \in StatsNows, present \in SUBSET TicketThreadIds :
       args \in [range : DashboardRanges, now : {now},
                 docs : [present -> ThreadDocsAt(now)],
                 env : [scan : BOOLEAN, unmapped : SUBSET present]]
  /\ ret = <<>>
  /\ UsersUnused /\ ContentUnused /\ ReplyUnused /\ HookUnused

CallGetSupportTickets ==
  /\ ~Returned
  /\ ret' = <<GetSupportTickets(args.range, args.now, args.docs, args.env)>>
  /\ UNCHANGED <<args, usersVars, contentVars, replyVars, hook>>

NextTickets == CallGetSupportTickets

SpecTickets == InitTickets /\ [][NextTickets]_vars

TicketIds == {Result.tickets[i] : i \in 1..Len(Result.tickets)}
HasThreadTime(id) == ThreadTime(args.docs[id]) # {}

Comma == ","
Quote == "\""
Newline == "\n"

RECURSIVE EscapeQuotes(_)
\* String(x).replace(/"/g, '""')
EscapeQuotes(t) ==
  IF t = <<>> THEN <<>>
  ELSE (IF Head(t) = Quote THEN <<Quote, Quote>> ELSE <<Head(t)>>) \o EscapeQuotes(Tail(t))

\* `"${String(x).replace(/"/g, '""')}"`
Quoted(t) == <<Quote>> \o EscapeQuotes(t) \o <<Quote>>

RECURSIVE Join(_, _)
\* Array.prototype.join(sep) on texts
Join(parts, sep) ==
  IF parts = <<>> THEN <<>>
  ELSE IF Len(parts) = 1 THEN parts[1]
  ELSE parts[1] \o <<sep>> \o Join(Tail(parts), sep)

MapSeq(f(_), xs) == [i \in 1..Len(xs) |-> f(xs[i])]

\* SupportPage export: the header and one row per ticket.
SupportHeader == << <<"id">>, <<"subject">>, <<"user">>, <<"status">>, <<"priority">>,
                    <<"assignedTo">>, <<"message">>, <<"lastUpdated">> >>
SupportFields(t) ==
  <<t.id, t.subject, t.user, t.status, t.priority, t.assignedTo, t.message, t.lastUpdated>>
SupportRow(t) ==
  Join(<<t.id, Quoted(t.subject), t.user, t.status, t.priority, t.assignedTo,
         Quoted(t.message), t.lastUpdated>>, Comma)
SupportCsv(tickets) ==
  Join(<<Join(SupportHeader, Comma)>> \o MapSeq(SupportRow, tickets), Newline)

\* ExportDataModal.handleExport with only the content dataset: header and
\* one row per top article (the metadata rows are left out).
ContentHeader == << <<"dataset">>, <<"id">>, <<"label">>, <<"value">> >>
ContentFields(a) == << <<"content">>, a.id, a.title, a.views >>
ContentRow(a) == Join(ContentFields(a), Comma)
ContentCsv(articles) ==
  Join(<<Join(ContentHeader, Comma)>> \o MapSeq(ContentRow, articles), Newline)

\* Decimal digits of n >= 0.
DigitChars == <<"0", "1", "2", "3", "4", "5", "6", "7", "8", "9">>
RECURSIVE Digits(_)
Digits(n) == IF n < 10 THEN <<DigitChars[n + 1]>>
             ELSE Digits(n \div 10) \o <<DigitChars[(n % 10) + 1]>>
\* Three digits, zero padded, of n < 1000.
Digits3(n) == <<DigitChars[(n \div 100) + 1], DigitChars[((n \div 10) % 10) + 1],
                DigitChars[(n % 10) + 1]>>
RECURSIVE FormatNumber(_)
\* num.toLocaleString("en-US") for an integer num >= 0
FormatNumber(n) ==
  IF n < 1000 THEN Digits(n)
  ELSE FormatNumber(n \div 1000) \o <<Comma>> \o Digits3(n % 1000)

\* DashboardPage.handleGenerateReport: the header and one row per stat.
\* delta is the text s.delta.toFixed(1) gives.
ReportHeader == << <<"id">>, <<"label">>, <<"value">>, <<"delta">>, <<"range">> >>
ReportFields(st) == <<st.id, st.label, FormatNumber(st.value), st.delta, st.range>>
ReportRow(st) ==
  Join(<<st.id, Quoted(st.label), FormatNumber(st.value), st.delta, st.range>>, Comma)
ReportCsv(stats) ==
  Join(<<Join(ReportHeader, Comma)>> \o MapSeq(ReportRow, stats), Newline)

(***************************************************************************)
(* An RFC 4180 reader: fields separated by commas, records by newlines; a  *)
(* field is quoted or holds no quote; inside quotes "" is one quote.       *)
(***************************************************************************)
Malformed == [ok |-> FALSE, rows |-> <<>>]

RECURSIVE ParseFrom(_, _, _, _, _, _)
ParseFrom(text, i, mode, field, row, rows) ==
  IF i > Len(text) THEN
    IF mode = "quoted" THEN Malformed
    ELSE [ok |-> TRUE, rows |-> Append(rows, Append(row, field))]
  ELSE
    LET ch == text[i] IN
    CASE mode = "quoted" /\ ch = Quote -> ParseFrom(text, i + 1, "closed", field, row, rows)
      [] mode = "quoted" /\ ch # Quote ->
           ParseFrom(text, i + 1, "quoted", Append(field, ch), row, rows)
      [] mode = "closed" /\ ch = Quote ->
           ParseFrom(text, i + 1, "quoted", Append(field, Quote), row, rows)
      [] mode # "quoted" /\ ch = Comma ->
           ParseFrom(text, i + 1, "start", <<>>, Append(row, field), rows)
      [] mode # "quoted" /\ ch = Newline ->
           ParseFrom(text, i + 1, "start", <<>>, <<>>, Append(rows, Append(row, field)))
      [] mode = "start" /\ ch = Quote -> ParseFrom(text, i + 1, "quoted", <<>>, row, rows)
      [] mode = "start" /\ ch \notin {Quote, Comma, Newline} ->
           ParseFrom(text, i + 1, "plain", <<ch>>, row, rows)
      [] mode = "plain" /\ ch \notin {Quote, Comma, Newline} ->
           ParseFrom(text, i + 1, "plain", Append(field, ch), row, rows)
      [] OTHER -> Malformed

ParseCsv(text) == ParseFrom(text, 1, "start", <<>>, <<>>, <<>>)

\* Field texts: up to MaxFieldLen characters of letters, commas and quotes.
MaxFieldLen == 1
CsvAlphabet == {"a", Comma, Quote}
FieldTexts == UNION {[1..n -> CsvAlphabet] : n \in 0..MaxFieldLen}
MaxCsvRows == 2

TicketRecords ==
  [id : {<<"t">>}, subject : FieldTexts, user : FieldTexts, status : {<<"open">>},
   priority : {<<"medium">>}, assignedTo : FieldTexts, message : FieldTexts,
   lastUpdated : {<<"2h ago">>}]
ArticleRecords == [id : {<<"article_1">>}, title : FieldTexts, views : {<<"3">>}]
StatRecords ==
  [id : {<<"total_users">>}, label : {<<"Total Users">>}, value : {0, 999, 1420},
   delta : {<<"50.0">>}, range : {<<"last_7_days">>}]

SeqsUpTo(S, n) == UNION {[1..k -> S] : k \in 0..n}

InitCsv ==
  /\ \/ args \in [exporter : {"support"}, records : SeqsUpTo(TicketRecords, MaxCsvRows)]
     \/ args \in [exporter : {"content"}, records : SeqsUpTo(ArticleRecords, MaxCsvRows)]
     \/ args \in [exporter : {"report"}, records : SeqsUpTo(StatRecords, MaxCsvRows)]
  /\ ret = <<>>
  /\ UsersUnused /\ ContentUnused /\ ReplyUnused /\ HookUnused

ExportCsv ==
  /\ ~Returned
  /\ ret' = << CASE args.exporter = "support" -> SupportCsv(args.records)
                 [] args.exporter = "content" -> ContentCsv(args.records)
                 [] args.exporter = "report" -> ReportCsv(args.records) >>
  /\ UNCHANGED <<args, usersVars, contentVars, replyVars, hook>>

NextCsv == ExportCsv

SpecCsv == InitCsv /\ [][NextCsv]_vars

\* The header and the original field values of the exported records.
ExpectedRows ==
  CASE args.exporter = "support" -> <<SupportHeader>> \o MapSeq(SupportFields, args.records)
    [] args.exporter = "content" -> <<ContentHeader>> \o MapSeq(ContentFields, args.records)
    [] args.exporter = "report" -> <<ReportHeader>> \o MapSeq(ReportFields, args.records)

\* C7: the generated CSV, read by an RFC 4180 parser, yields the header and
\* exactly N data rows with the header's number of columns and field values
\* identical to the originals, whatever commas and quotes the fields hold.
C7_CsvRoundTrip ==
  Returned => /\ ParseCsv(Result).ok
              /\ ParseCsv(Result).rows = ExpectedRows

(***************************************************************************)
(* Percentage deltas: dashboardService.calculateDelta and                  *)
(* useDashboardStats.getDeltaPercentage.  A result is the exact rational   *)
(* [num, den], den > 0, of the quotient the code computes in floating      *)
(* point.  An argument is the set holding the number, empty for undefined. *)
(***************************************************************************)
Rat(n, d) == [num |-> n, den |-> d]
RatEq(a, b) == a.num * b.den = b.num * a.den

\* A delta that reports no change from a zero baseline.
CalculateDeltaZeroBaseline(current, previous) ==
  IF previous = 0 THEN Rat(0, 1)
  ELSE Rat((current - previous) * 100, previous)

\* calculateDelta(current, previous)
CalculateDelta(current, previous) ==
  IF previous = 0 THEN (IF current > 0 THEN Rat(100, 1) ELSE Rat(0, 1))
  ELSE Rat((current - previous) * 100, previous)

\* getDeltaPercentage(current, previous): previous may be undefined.
GetDeltaPercentage(current, previous) ==
  IF previous = {} \/ previous = {0}
    THEN (IF current > 0 THEN Rat(100, 1) ELSE Rat(0, 1))
    ELSE LET prev == CHOOSE n \in previous : TRUE
         IN Rat((current - prev) * 100, prev)

MaxCount == 12
Counts == 0..MaxCount \cup {100, 150}

InitDelta ==
  /\ \/ args \in [fn : {"calculateDelta", "getDeltaPercentage"},
                  current : Counts, previous : {{n} : n \in Counts}]
     \/ args \in [fn : {"getDeltaPercentage"}, current : Counts, previous : {{}}]
  /\ ret = <<>>
  /\ UsersUnused /\ ContentUnused /\ ReplyUnused /\ HookUnused

CallDelta ==
  /\ ~Returned
  /\ ret' = << IF args.fn = "calculateDelta"
                 THEN CalculateDelta(args.current, CHOOSE n \in args.previous : TRUE)
                 ELSE GetDeltaPercentage(args.current, args.previous) >>
  /\ UNCHANGED <<args, usersVars, contentVars, replyVars, hook>>

NextDelta == CallDelta

SpecDelta == InitDelta /\ [][NextDelta]_vars

\* C9: for non-negative current and previous, delta(current, 0) = 100 when
\* current > 0, delta(0, 0) = 0, and otherwise
\* delta(current, previous) = (current - previous) / previous * 100, so
\* delta(150, 100) = 50; for calculateDelta and getDeltaPercentage alike.
C9_DeltaContract ==
  (Returned /\ args.previous # {}) =>
    LET c == args.current
        p == CHOOSE n \in args.previous : TRUE
    IN /\ (p = 0 /\ c > 0) => Result = Rat(100, 1)
       /\ (p = 0 /\ c = 0) => Result = Rat(0, 1)
       /\ p > 0 => /\ Result.den > 0
                   /\ Result.num * p = (c - p) * 100 * Result.den
       /\ (c = 150 /\ p = 100) => RatEq(Result, Rat(50, 1))

C9_Witness ==
  /\ Returned /\ args.fn = "getDeltaPercentage"
  /\ args.current = 150 /\ args.previous = {100}
  /\ RatEq(Result, Rat(50, 1))

(***************************************************************************)
(* analyticsService.getMembershipDistribution over getMembersByTier.  A    *)
(* users document carries the three tier fields, "" when absent.           *)
(***************************************************************************)
\* data.membershipTier || data.tier || data.membership || "core"
TierOf(doc) ==
  IF doc.membershipTier # "" THEN doc.membershipTier
  ELSE IF doc.tier # "" THEN doc.tier
  ELSE IF doc.membership # "" THEN doc.membership
  ELSE "core"

RECURSIVE TierKeys(_)
\* The keys of byTier in insertion order (first occurrence in the snapshot).
TierKeys(docs) ==
  IF docs = <<>> THEN <<>>
  ELSE LET before == TierKeys(SubSeq(docs, 1, Len(docs) - 1))
           tier == TierOf(docs[Len(docs)])
       IN IF \E i \in 1..Len(before) : before[i] = tier THEN before
          ELSE Append(before, tier)

TierCount(docs, tier) == Cardinality({i \in 1..Len(docs) : TierOf(docs[i]) = tier})

\* A getMembersByTier that counts in total only documents with a
\* membershipTier field.
GetMembersByTierExplicitTotal(docs, readOk) ==
  IF ~readOk THEN [total |-> 0, keys |-> <<>>]
  ELSE [total |-> Cardinality({i \in 1..Len(docs) : docs[i].membershipTier # ""}),
        keys |-> TierKeys(docs)]

\* getMembersByTier: total and the byTier keys; the catch returns the empty
\* result when the users read fails.
GetMembersByTier(docs, readOk) ==
  IF ~readOk THEN [total |-> 0, keys |-> <<>>]
  ELSE [total |-> Len(docs), keys |-> TierKeys(docs)]

\* Math.round(count / total * 100): the nearest integer, halves upwards.
RoundPercent(count, total) == (200 * count + total) \div (2 * total)

\* tier.toLowerCase().trim() looked up in tierMapping, else the raw tier.
TierLabel(tier) ==
  CASE tier \in {"pro", "Pro"} -> "Pro"
    [] tier = "advantage" -> "Advantage"
    [] tier = "core" -> "Core"
    [] OTHER -> tier

RECURSIVE InsertPoint(_, _)
\* Stable insertion for sort((a, b) => b.value - a.value).
InsertPoint(sorted, pt) ==
  IF sorted = <<>> THEN <<pt>>
  ELSE IF Head(sorted).value >= pt.value
         THEN <<Head(sorted)>> \o InsertPoint(Tail(sorted), pt)
         ELSE <<pt>> \o sorted

RECURSIVE SortPoints(_)
SortPoints(pts) ==
  IF pts = <<>> THEN <<>>
  ELSE InsertPoint(SortPoints(SubSeq(pts, 1, Len(pts) - 1)), pts[Len(pts)])

\* getMembershipDistribution()
GetMembershipDistribution(docs, readOk) ==
  LET result == GetMembersByTier(docs, readOk)
      total == IF result.total = 0 THEN 1 ELSE result.total
  IN SortPoints([i \in 1..Len(result.keys) |->
       [label |-> TierLabel(result.keys[i]),
        value |-> RoundPercent(TierCount(docs, result.keys[i]), total)]])

MaxTierUsers == 3
TierDocs == [membershipTier : {"", "pro", "Pro"}, tier : {"", "advantage"},
             membership : {"", "vip"}]

InitTiers ==
  /\ args \in [docs : SeqsUpTo(TierDocs, MaxTierUsers), readOk : BOOLEAN]
  /\ ret = <<>>
  /\ UsersUnused /\ ContentUnused /\ ReplyUnused /\ HookUnused

CallGetMembershipDistribution ==
  /\ ~Returned
  /\ ret' = <<GetMembershipDistribution(args.docs, args.readOk)>>
  /\ UNCHANGED <<args, usersVars, contentVars, replyVars, hook>>

NextTiers == CallGetMembershipDistribution

SpecTiers == InitTiers /\ [][NextTiers]_vars

RECURSIVE SumValues(_)
SumValues(pts) == IF pts = <<>> THEN 0 ELSE Head(pts).value + SumValues(Tail(pts))

DistinctTiers == {TierOf(args.docs[i]) : i \in 1..Len(args.docs)}

WithinOf100(sum, n) == 100 - n <= sum /\ sum <= 100 + n

\* C10 as stated: for every users collection the returned percentages sum
\* to 100 within plus or minus the number of tiers.
C10_SumsTo100 ==
  Returned => WithinOf100(SumValues(Result), Cardinality(DistinctTiers))

\* C10 (amended): for every non-empty users collection whose read succeeds,
\* getMembershipDistribution returns one entry per distinct tier string and
\* the percentages sum to 100 within plus or minus the number of tiers; for
\* an empty collection or a failed read it returns no entry.
C10_SumsTo100WhenNonEmpty ==
  Returned =>
    IF args.docs # <<>> /\ args.readOk
      THEN /\ Len(Result) = Cardinality(DistinctTiers)
           /\ WithinOf100(SumValues(Result), Len(Result))
      ELSE Result = <<>>

C10_Witness ==
  /\ Returned /\ args.readOk
  /\ Len(Result) = 3
  /\ SumValues(Result) = 99

(***************************************************************************)
(* disputesService.determineDisputeStatus.  A field that may hold anything *)
(* is [kind, len]: absent, an array of len elements, or a string of len    *)
(* characters.                                                             *)
(***************************************************************************)
MaxLetters == 2
AbsentValue == [kind |-> "absent", len |-> 0]
LetterValues ==
  {AbsentValue} \cup [kind : {"array"}, len : 0..MaxLetters]
                \cup [kind : {"string"}, len : 0..1]

\* JavaScript truthiness: every array is truthy, a string unless empty.
Truthy(v) == v.kind = "array" \/ (v.kind = "string" /\ v.len > 0)

\* hasLettersForDispute(userData)
HasLettersForDispute(userData) ==
  LET letters == IF Truthy(userData.letters) THEN userData.letters
                 ELSE IF Truthy(userData.generatedLetters) THEN userData.generatedLetters
                 ELSE [kind |-> "array", len |-> 0]
  IN letters.kind = "array" /\ letters.len > 0

\* A status derivation that looks at the letters before the stored status.
DetermineDisputeStatusLettersFirst(dispute, userData) ==
  IF HasLettersForDispute(userData) THEN "mailed"
  ELSE IF dispute.status = "resolved" \/ dispute.status = "closed" THEN "resolved"
  ELSE "open"

\* determineDisputeStatus(dispute, userData)
DetermineDisputeStatus(dispute, userData) ==
  IF dispute.status = "resolved" \/ dispute.status = "closed" THEN "resolved"
  ELSE IF HasLettersForDispute(userData) THEN "mailed"
  ELSE "open"

\* dispute.status: "" stands for an absent status.
DisputeValues ==
  [status : {"", "resolved", "closed", "open", "pending"},
   category : {"", "late_payment"},
   updatedAt : {{}, {1}}]
UserDataValues ==
  [letters : LetterValues, generatedLetters : LetterValues, otherDisputes : 0..1]

InitDisputeStatus ==
  /\ args \in [dispute : DisputeValues, userData : UserDataValues]
  /\ ret = <<>>
  /\ UsersUnused /\ ContentUnused /\ ReplyUnused /\ HookUnused

CallDetermineDisputeStatus ==
  /\ ~Returned
  /\ ret' = <<DetermineDisputeStatus(args.dispute, args.userData)>>
  /\ UNCHANGED <<args, usersVars, contentVars, replyVars, hook>>

NextDisputeStatus == CallDetermineDisputeStatus

SpecDisputeStatus == InitDisputeStatus /\ [][NextDisputeStatus]_vars

\* C11: the dispute status depends only on dispute.status and on whether
\* the owning user has letters: "resolved" yields "resolved" whatever the
\* letters, an absent status yields "open" with an empty letters array and
\* "mailed" with a non-empty one, and two inputs that agree on the status
\* and on having letters get the same result whatever their dates,
\* category and other disputes.
C11_StatusPureFunction ==
  Returned =>
    LET d == args.dispute
        u == args.userData
    IN /\ d.status = "resolved" => Result = "resolved"
       /\ (d.status = "" /\ u.letters = [kind |-> "array", len |-> 0]) => Result = "open"
       /\ (d.status = "" /\ u.letters.kind = "array" /\ u.letters.len > 0) => Result = "mailed"
       /\ \A d2 \in DisputeValues, u2 \in UserDataValues :
            (d2.status = d.status /\ HasLettersForDispute(u2) = HasLettersForDispute(u))
              => DetermineDisputeStatus(d2, u2) = Result

C11_Witness ==
  /\ Returned /\ Result = "resolved"
  /\ args.dispute.status = "resolved"
  /\ args.userData.letters.kind = "array" /\ args.userData.letters.len > 0
  /\ args.dispute.updatedAt # {} /\ args.userData.otherDisputes = 1

(***************************************************************************)
(* userJourneyService: hasLetters, calculateJourneyStage and               *)
(* calculateProgress over one users document.  documentsCompleted is       *)
(* "true" or "false" for the booleans, "absent", or "string" for the text  *)
(* 'true'; creditReportUrl and the tier fields are "" when absent.         *)
(***************************************************************************)
\* hasLetters(userData)
HasLetters(userData) ==
  LET letters == IF Truthy(userData.letters) THEN userData.letters
                 ELSE IF Truthy(userData.generatedLetters) THEN userData.generatedLetters
                 ELSE [kind |-> "array", len |-> 0]
  IN letters.kind = "array" /\ letters.len > 0

\* userData.membershipTier || userData.tier || userData.membership
JourneyTier(userData) ==
  IF userData.membershipTier # "" THEN userData.membershipTier
  ELSE IF userData.tier # "" THEN userData.tier
  ELSE userData.membership

\* Array.isArray(disputes) && disputes.length > 0 for
\* analysis.disputeCandidates || []
HasDisputes(userData) ==
  LET disputes == IF Truthy(userData.disputeCandidates) THEN userData.disputeCandidates
                  ELSE [kind |-> "array", len |-> 0]
  IN disputes.kind = "array" /\ disputes.len > 0

\* updatedAt || createdAt, the empty set when neither is present.
JourneyLastActivity(userData) ==
  IF userData.updatedAt # {} THEN userData.updatedAt ELSE userData.createdAt

\* (Date.now() - lastActivity.getTime()) / (1000 * 60 * 60 * 24) > 30
InactiveOver30Days(now, lastActivity) ==
  LET since == Duration(lastActivity, now)
  IN since.days > 30 \/ (since.days = 30 /\ since.ms > 0)

\* A ladder that accepts any truthy documentsCompleted.
CalculateJourneyStageTruthyDocuments(userData, now) ==
  IF userData.documentsCompleted \notin {"true", "string"} THEN "Onboarding & profile complete"
  ELSE IF userData.creditReportUrl = "" THEN "Credit pull & analysis"
  ELSE IF JourneyTier(userData) = "" THEN "Plan assigned"
  ELSE IF ~HasDisputes(userData) THEN "Disputes created & letters queued"
  ELSE "Mailing & bureau responses"

\* calculateJourneyStage(userData), with now the value of Date.now()
CalculateJourneyStage(userData, now) ==
  IF userData.documentsCompleted # "true" THEN "Onboarding & profile complete"
  ELSE IF userData.creditReportUrl = "" THEN "Credit pull & analysis"
  ELSE IF JourneyTier(userData) = "" THEN "Plan assigned"
  ELSE IF ~HasDisputes(userData) THEN "Disputes created & letters queued"
  ELSE IF HasLetters(userData) THEN "Mailing & bureau responses"
  ELSE LET lastActivity == JourneyLastActivity(userData)
       IN IF /\ lastActivity # {}
             /\ InactiveOver30Days(now, CHOOSE t \in lastActivity : TRUE)
             /\ HasDisputes(userData)
            THEN "Monitoring & follow-up"
            ELSE "Mailing & bureau responses"

\* calculateProgress(userData)
CalculateProgress(userData, now) ==
  LET stage == CalculateJourneyStage(userData, now)
  IN CASE stage = "Onboarding & profile complete" -> 12
       [] stage = "Credit pull & analysis" -> 25
       [] stage = "Plan assigned" -> 45
       [] stage = "Disputes created & letters queued" -> 65
       [] stage = "Mailing & bureau responses" -> 85
       [] stage = "Monitoring & follow-up" -> 95
       [] OTHER -> 0

MaxJourneyNowDay == 0
JourneyNows == [day : YearStart(BaseYear)..(YearStart(BaseYear) + MaxJourneyNowDay),
                ms : {0, MsPerDay \div 2}]
JourneyAges == {Days(30), [days |-> 30, ms |-> 1], Days(45)}
JourneyStampsAt(now) == {{}} \cup {{MinusDuration(now, age)} : age \in JourneyAges}
JourneyTiers ==
  {[membershipTier |-> "", tier |-> "", membership |-> ""],
   [membershipTier |-> "pro", tier |-> "", membership |-> ""],
   [membershipTier |-> "", tier |-> "core", membership |-> ""],
   [membershipTier |-> "", tier |-> "", membership |-> "advantage"]}
JourneyArrays == {AbsentValue} \cup [kind : {"array"}, len : 0..1]
JourneyDocsAt(now) ==
  {[documentsCompleted |-> dc, creditReportUrl |-> url,
    membershipTier |-> t.membershipTier, tier |-> t.tier, membership |-> t.membership,
    disputeCandidates |-> dsp, letters |-> l, generatedLetters |-> g,
    updatedAt |-> up, createdAt |-> cr] :
     dc \in {"absent", "true", "false", "string"}, url \in {"", "url"},
     t \in JourneyTiers,
     dsp \in JourneyArrays \cup {[kind |-> "string", len |-> 1]},
     l \in JourneyArrays, g \in JourneyArrays,
     up \in JourneyStampsAt(now), cr \in JourneyStampsAt(now)}

InitJourney ==
  /\ \E now \in JourneyNows :
       args \in [now : {now}, userData : JourneyDocsAt(now)]
  /\ ret = <<>>
  /\ UsersUnused /\ ContentUnused /\ ReplyUnused /\ HookUnused

\* getUserJourneys maps each users document to its stage and progress.
CallCalculateJourney ==
  /\ ~Returned
  /\ ret' = <<[stage |-> CalculateJourneyStage(args.userData, args.now),
               progress |-> CalculateProgress(args.userData, args.now)]>>
  /\ UNCHANGED <<args, usersVars, contentVars, replyVars, hook>>

NextJourney == CallCalculateJourney

SpecJourney == InitJourney /\ [][NextJourney]_vars

\* C12: the stage is that of the first failing rung in the order
\* documentsCompleted, creditReportUrl, tier, disputes; a user whose
\* documentsCompleted is not true is "Onboarding & profile complete"
\* (progress 12) whatever every other field holds.
C12_FirstFailingRung ==
  Returned =>
    LET u == args.userData
    IN /\ u.documentsCompleted # "true" =>
            (Result.stage = "Onboarding & profile complete" /\ Result.progress = 12)
       /\ (u.documentsCompleted = "true" /\ u.creditReportUrl = "") =>
            Result.stage = "Credit pull & analysis"
       /\ (u.documentsCompleted = "true" /\ u.creditReportUrl # "" /\ JourneyTier(u) = "") =>
            Result.stage = "Plan assigned"
       /\ (u.documentsCompleted = "true" /\ u.creditReportUrl # "" /\ JourneyTier(u) # ""
           /\ ~HasDisputes(u)) =>
            Result.stage = "Disputes created & letters queued"
       /\ (u.documentsCompleted = "true" /\ u.creditReportUrl # "" /\ JourneyTier(u) # ""
           /\ HasDisputes(u)) =>
            Result.stage \in {"Mailing & bureau responses", "Monitoring & follow-up"}

C12_Witness ==
  /\ Returned /\ Result.stage = "Onboarding & profile complete"
  /\ args.userData.documentsCompleted = "string"
  /\ args.userData.creditReportUrl # "" /\ JourneyTier(args.userData) # ""
  /\ HasDisputes(args.userData) /\ HasLetters(args.userData)
  /\ args.userData.updatedAt # {}

\* C13: a user with completed documents, a credit report, a tier and at
\* least one dispute whose last activity (updatedAt, else createdAt) is more
\* than 30 days ago is "Monitoring & follow-up" with progress 95, with or
\* without letters.
C13_MonitoringAfter30Days ==
  Returned =>
    LET u == args.userData
        lastActivity == JourneyLastActivity(u)
    IN (/\ u.documentsCompleted = "true" /\ u.creditReportUrl # ""
        /\ JourneyTier(u) # "" /\ HasDisputes(u)
        /\ lastActivity # {}
        /\ InactiveOver30Days(args.now, CHOOSE t \in lastActivity : TRUE))
       => (Result.stage = "Monitoring & follow-up" /\ Result.progress = 95)

(***************************************************************************)
(* The store-writing service functions: createArticle, updateArticle,      *)
(* deleteArticle (mailingService), createEducationContent,                 *)
(* updateEducationContent, deleteEducationContent, updateUser,             *)
(* updateTicketMetadata and createSupportTicket.  A call is a record in    *)
(* wc; docWrites counts the document writes the call has issued.           *)
(***************************************************************************)
MaxWriteCalls == 1
WriteCalls == 1..MaxWriteCalls
MaxContentDocs == 2
ContentIds == 1..MaxContentDocs
Collections == {"articles", "educationContent"}
Titles == {"t1", "t2"}

SingleWriteFns ==
  {"createArticle", "updateArticle", "deleteArticle", "createEducationContent",
   "updateEducationContent", "deleteEducationContent", "updateUser",
   "updateTicketMetadata"}

\* The collection a content function writes.
CollectionOf(fn) ==
  IF fn \in {"createArticle", "updateArticle", "deleteArticle"} THEN "articles"
  ELSE "educationContent"

\* target: the document id passed in (a set, empty for the create functions);
\* userId, exists, initialMessage: locals of createSupportTicket.
IdleWrite == [fn |-> None, pc |-> "idle", target |-> {}, title |-> None,
              userId |-> {}, exists |-> FALSE, initialMessage |-> <<>>,
              docWrites |-> 0, returned |-> {}, thrown |-> None]

\* The id addDoc gives a new document of collection coll.
FreshId(coll) == CHOOSE id \in ContentIds \ DOMAIN content[coll] :
                   \A other \in ContentIds \ DOMAIN content[coll] : id <= other

\* f with the value at key k set to v, k added to the domain if new.
Put(f, k, v) == [x \in DOMAIN f \cup {k} |-> IF x = k THEN v ELSE f[x]]
\* f without key k.
Remove(f, k) == [x \in DOMAIN f \ {k} |-> f[x]]

\* Calls started so far, of this section and of createUser.
StartedCalls ==
  Cardinality({c \in WriteCalls : wc[c].pc # "idle"})
    + Cardinality({c \in DOMAIN cu : cu[c].pc # "idle"})

\* Call slot c is the next one to use.
NextSlot(c) ==
  /\ wc[c].pc = "idle"
  /\ \A b \in WriteCalls : b < c => wc[b].pc # "idle"
  /\ StartedCalls < MaxWriteCalls

\* A single-write function is entered and its one awaited write is issued:
\* addDoc for create*, updateDoc for update*, deleteDoc for delete*.
SingleWriteCall(c, fn, target, title) ==
  /\ NextSlot(c)
  /\ fn \in SingleWriteFns
  /\ wc' = [wc EXCEPT ![c] = [@ EXCEPT !.fn = fn, !.pc = "write", !.target = target,
                                        !.title = title, !.docWrites = @ + 1]]
  /\ UNCHANGED <<content, users, threads, messages, clock>>

\* The document the awaited updateDoc addresses exists.
UpdateTargetExists(c) ==
  LET fn == wc[c].fn
  IN \E id \in wc[c].target :
       CASE fn \in {"updateArticle", "updateEducationContent"} ->
              id \in DOMAIN content[CollectionOf(fn)]
         [] fn = "updateUser" -> id \in users
         [] fn = "updateTicketMetadata" -> id \in DOMAIN threads
         [] OTHER -> TRUE

\* The awaited write resolves and the function returns.
SingleWriteOk(c) ==
  LET fn == wc[c].fn
      coll == CollectionOf(fn)
  IN /\ wc[c].pc = "write" /\ fn \in SingleWriteFns
     /\ UpdateTargetExists(c)
     /\ CASE fn \in {"createArticle", "createEducationContent"} ->
               /\ ContentIds \ DOMAIN content[coll] # {}
               /\ content' = [content EXCEPT ![coll] =
                                Put(@, FreshId(coll), [title |-> wc[c].title])]
               /\ wc' = [wc EXCEPT ![c] = [@ EXCEPT !.pc = "done",
                                                    !.returned = {FreshId(coll)}]]
               /\ UNCHANGED threads
          [] fn \in {"updateArticle", "updateEducationContent"} ->
               /\ content' = [content EXCEPT ![coll] =
                                [id \in DOMAIN @ |->
                                   IF id \in wc[c].target
                                     THEN [@[id] EXCEPT !.title = wc[c].title]
                                     ELSE @[id]]]
               /\ wc' = [wc EXCEPT ![c] = [@ EXCEPT !.pc = "done"]]
               /\ UNCHANGED threads
          [] fn \in {"deleteArticle", "deleteEducationContent"} ->
               /\ content' = [content EXCEPT ![coll] =
                                [id \in DOMAIN @ \ wc[c].target |-> @[id]]]
               /\ wc' = [wc EXCEPT ![c] = [@ EXCEPT !.pc = "done"]]
               /\ UNCHANGED threads
          [] fn = "updateUser" ->
               /\ wc' = [wc EXCEPT ![c] = [@ EXCEPT !.pc = "done"]]
               /\ UNCHANGED <<content, threads>>
          [] fn = "updateTicketMetadata" ->
               /\ threads' = [th \in DOMAIN threads |->
                                IF th \in wc[c].target
                                  THEN [threads[th] EXCEPT !.subject = wc[c].title]
                                  ELSE threads[th]]
               /\ wc' = [wc EXCEPT ![c] = [@ EXCEPT !.pc = "done"]]
               /\ UNCHANGED content
     /\ UNCHANGED <<users, messages, clock>>

\* The awaited write rejects (not-found for an update of a missing document,
\* or any store failure): the catch logs and throws.
SingleWriteFails(c) ==
  /\ wc[c].pc = "write" /\ wc[c].fn \in SingleWriteFns
  /\ wc' = [wc EXCEPT ![c] = [@ EXCEPT !.pc = "failed",
               !.thrown = IF UpdateTargetExists(c) THEN "unavailable" ELSE "not-found"]]
  /\ UNCHANGED <<content, users, threads, messages, clock>>

\* userIdOrEmail.includes("@"): of the arguments tried, the e-mails.
IncludesAt(userIdOrEmail) == userIdOrEmail \in Emails

Subjects == {"s1", "s2"}
\* initialMessage: <<>> stands for undefined and for the empty string.
InitialMessages == {<<>>, <<"m">>, <<" ">>}
TicketArgs == {"u1", "u2"} \cup Emails

\* createSupportTicket(userIdOrEmail, subject, initialMessage) is entered:
\* an e-mail is looked up first (getUserIdByEmail), a user id goes straight
\* to getDoc(threadRef).
CreateSupportTicketCall(c, userIdOrEmail, subject, initialMessage) ==
  /\ NextSlot(c)
  /\ wc' = [wc EXCEPT ![c] =
       [@ EXCEPT !.fn = "createSupportTicket", !.target = {userIdOrEmail},
                 !.title = subject, !.initialMessage = initialMessage,
                 !.pc = IF IncludesAt(userIdOrEmail) THEN "lookup" ELSE "getDoc",
                 !.userId = IF IncludesAt(userIdOrEmail) THEN {} ELSE {userIdOrEmail}]]
  /\ UNCHANGED <<content, users, threads, messages, clock>>

\* getUserIdByEmail resolves with the id of a users document carrying the
\* e-mail: getDoc(threadRef) is issued.
CreateSupportTicketLookupFound(c) ==
  /\ wc[c].fn = "createSupportTicket" /\ wc[c].pc = "lookup"
  /\ \E email \in wc[c].target :
       /\ UidOf(email) \in users
       /\ wc' = [wc EXCEPT ![c] = [@ EXCEPT !.pc = "getDoc", !.userId = {UidOf(email)}]]
  /\ UNCHANGED <<content, users, threads, messages, clock>>

\* getUserIdByEmail resolves with null (no such user, or its read failed and
\* its catch returned null): "User not found" is thrown.
CreateSupportTicketLookupNull(c) ==
  /\ wc[c].fn = "createSupportTicket" /\ wc[c].pc = "lookup"
  /\ wc' = [wc EXCEPT ![c] = [@ EXCEPT !.pc = "failed", !.thrown = "User not found"]]
  /\ UNCHANGED <<content, users, threads, messages, clock>>

\* await getDoc(threadRef) resolves: threadData is built and updateDoc (the
\* thread exists) or setDoc is issued.
CreateSupportTicketGetDocOk(c) ==
  /\ wc[c].fn = "createSupportTicket" /\ wc[c].pc = "getDoc"
  /\ wc' = [wc EXCEPT ![c] = [@ EXCEPT !.pc = "writeThread",
               !.exists = (wc[c].userId \subseteq DOMAIN threads),
               !.docWrites = @ + 1]]
  /\ UNCHANGED <<content, users, threads, messages, clock>>

\* A store call of createSupportTicket rejects: the catch logs and rethrows.
CreateSupportTicketStoreFails(c) ==
  /\ wc[c].fn = "createSupportTicket"
  /\ wc[c].pc \in {"getDoc", "writeThread", "addDoc"}
  /\ wc' = [wc EXCEPT ![c] = [@ EXCEPT !.pc = "failed", !.thrown = "unavailable"]]
  /\ UNCHANGED <<content, users, threads, messages, clock>>

\* threadData as createSupportTicket builds it, stamped by the server.
ThreadData(userId, subject, initialMessage, now) ==
  [userId |-> userId, subject |-> subject, status |-> "open",
   lastMessage |-> IF initialMessage # <<>> THEN initialMessage ELSE <<subject>>,
   lastMessageAt |-> now]

\* A createSupportTicket whose thread document does not record the user id.
CreateSupportTicketWriteOkAnonymous(c) ==
  /\ wc[c].fn = "createSupportTicket" /\ wc[c].pc = "writeThread"
  /\ wc[c].exists => wc[c].userId \subseteq DOMAIN threads
  /\ clock' = clock + 1
  /\ \E userId \in wc[c].userId :
       threads' = Put(threads, userId,
                      ThreadData(None, wc[c].title, wc[c].initialMessage, clock'))
  /\ wc' = [wc EXCEPT ![c] =
       IF wc[c].initialMessage # <<>>
         THEN [@ EXCEPT !.pc = "addDoc", !.docWrites = @ + 1]
         ELSE [@ EXCEPT !.pc = "done", !.returned = wc[c].userId]]
  /\ UNCHANGED <<content, users, messages>>

\* await updateDoc / setDoc resolves: the thread document keyed by userId
\* carries threadData; with an initialMessage the addDoc is issued, else
\* userId is returned.  updateDoc resolves only on an existing document.
CreateSupportTicketWriteOk(c) ==
  /\ wc[c].fn = "createSupportTicket" /\ wc[c].pc = "writeThread"
  /\ wc[c].exists => wc[c].userId \subseteq DOMAIN threads
  /\ clock' = clock + 1
  /\ \E userId \in wc[c].userId :
       threads' = Put(threads, userId,
                      ThreadData(userId, wc[c].title, wc[c].initialMessage, clock'))
  /\ wc' = [wc EXCEPT ![c] =
       IF wc[c].initialMessage # <<>>
         THEN [@ EXCEPT !.pc = "addDoc", !.docWrites = @ + 1]
         ELSE [@ EXCEPT !.pc = "done", !.returned = wc[c].userId]]
  /\ UNCHANGED <<content, users, messages>>

\* A createSupportTicket that appends its initial message twice.
CreateSupportTicketAddDocOkTwice(c) ==
  /\ wc[c].fn = "createSupportTicket" /\ wc[c].pc = "addDoc"
  /\ clock' = clock + 1
  /\ \E userId \in wc[c].userId :
       LET msg == [id |-> clock', userId |-> userId, sender |-> "admin",
                   text |-> Trim(wc[c].initialMessage), createdAt |-> clock']
           old == IF userId \in DOMAIN messages THEN messages[userId] ELSE <<>>
       IN messages' = Put(messages, userId, old \o <<msg, msg>>)
  /\ wc' = [wc EXCEPT ![c] = [@ EXCEPT !.pc = "done", !.returned = wc[c].userId,
                                        !.docWrites = @ + 1]]
  /\ UNCHANGED <<content, users, threads>>

\* await addDoc(messagesRef, {...}) resolves: the trimmed initial message is
\* appended and userId returned.
CreateSupportTicketAddDocOk(c) ==
  /\ wc[c].fn = "createSupportTicket" /\ wc[c].pc = "addDoc"
  /\ clock' = clock + 1
  /\ \E userId \in wc[c].userId :
       messages' = Put(messages, userId,
         Append(IF userId \in DOMAIN messages THEN messages[userId] ELSE <<>>,
                [id |-> clock', userId |-> userId, sender |-> "admin",
                 text |-> Trim(wc[c].initialMessage), createdAt |-> clock']))
  /\ wc' = [wc EXCEPT ![c] = [@ EXCEPT !.pc = "done", !.returned = wc[c].userId]]
  /\ UNCHANGED <<content, users, threads>>

NewTitles == {"t2"}
\* The document ids tried as the argument of a single-write function.
WriteTargets(fn) ==
  CASE fn \in {"createArticle", "createEducationContent"} -> {{}}
    [] fn = "updateUser" -> {{UidOf(e)} : e \in Emails}
    [] fn = "updateTicketMetadata" -> {{"u1"}, {"u2"}}
    [] OTHER -> {{id} : id \in ContentIds}

InitWrites ==
  /\ authAccounts = {"a@x"}
  /\ users = {UidOf("a@x")}
  /\ cu = [c \in CreateCalls |-> IdleCall]
  /\ threads = ("u1" :> ThreadData("u1", "s1", <<>>, 1))
  /\ messages = ("u1" :> <<UserMessage("u1")>>)
  /\ clock = 1
  /\ rp = <<>>
  /\ content = [coll \in Collections |-> (1 :> [title |-> "t1"])]
  /\ page = None
  /\ wc = [c \in WriteCalls |-> IdleWrite]
  /\ HookUnused /\ PureUnused

WritesFrame == <<authAccounts, cu, rp, page, hook, pureVars>>

NextWrites ==
  \/ \E c \in WriteCalls, fn \in SingleWriteFns, title \in NewTitles :
       \E target \in WriteTargets(fn) :
         SingleWriteCall(c, fn, target, title) /\ UNCHANGED WritesFrame
  \/ \E c \in WriteCalls : SingleWriteOk(c) /\ UNCHANGED WritesFrame
  \/ \E c \in WriteCalls : SingleWriteFails(c) /\ UNCHANGED WritesFrame
  \/ \E c \in WriteCalls, a \in TicketArgs, s \in Subjects, m \in InitialMessages :
       CreateSupportTicketCall(c, a, s, m) /\ UNCHANGED WritesFrame
  \/ \E c \in WriteCalls : CreateSupportTicketLookupFound(c) /\ UNCHANGED WritesFrame
  \/ \E c \in WriteCalls : CreateSupportTicketLookupNull(c) /\ UNCHANGED WritesFrame
  \/ \E c \in WriteCalls : CreateSupportTicketGetDocOk(c) /\ UNCHANGED WritesFrame
  \/ \E c \in WriteCalls : CreateSupportTicketStoreFails(c) /\ UNCHANGED WritesFrame
  \/ \E c \in WriteCalls : CreateSupportTicketWriteOk(c) /\ UNCHANGED WritesFrame
  \/ \E c \in WriteCalls : CreateSupportTicketAddDocOk(c) /\ UNCHANGED WritesFrame
  \/ \E c \in CreateCalls, e \in Emails :
       /\ StartedCalls < MaxWriteCalls
       /\ CreateUserCall(c, e)
       /\ UNCHANGED <<replyVars, contentVars, hook, pureVars>>
  \/ \E c \in CreateCalls : CreateUserAuthOk(c) /\ UNCHANGED <<replyVars, contentVars, hook, pureVars>>
  \/ \E c \in CreateCalls : CreateUserAuthFails(c) /\ UNCHANGED <<replyVars, contentVars, hook, pureVars>>
  \/ \E c \in CreateCalls : CreateUserSetDocOk(c) /\ UNCHANGED <<replyVars, contentVars, hook, pureVars>>
  \/ \E c \in CreateCalls : CreateUserSetDocFails(c) /\ UNCHANGED <<replyVars, contentVars, hook, pureVars>>

SpecWrites == InitWrites /\ [][NextWrites]_vars

\* C14 as stated: every call of a create*/update*/delete* function that
\* returned has performed exactly one document write, and every createUser
\* that returned exactly one Auth account creation and one document write.
C14_OneWritePerCall ==
  /\ \A c \in WriteCalls : wc[c].pc = "done" => wc[c].docWrites = 1
  /\ \A c \in CreateCalls :
       cu[c].pc = "done" => (cu[c].authCreates = 1 /\ cu[c].docWrites = 1)

\* C14 (amended): every successful call of the single-write functions has
\* performed exactly one document write; a successful createSupportTicket
\* has performed one write of the thread document and, when an initial
\* message was given, one further write appending that message; a
\* successful createUser one account creation and then one document write.
C14_WritesPerCall ==
  /\ \A c \in WriteCalls :
       wc[c].pc = "done" =>
         IF wc[c].fn = "createSupportTicket"
           THEN /\ wc[c].docWrites = (IF wc[c].initialMessage # <<>> THEN 2 ELSE 1)
                /\ wc[c].userId \subseteq DOMAIN threads
           ELSE wc[c].docWrites = 1
  /\ \A c \in CreateCalls :
       cu[c].pc = "done" =>
         /\ cu[c].authCreates = 1 /\ cu[c].docWrites = 1
         /\ cu[c].email \in authAccounts /\ cu[c].uid \in users

C14_Witness ==
  \E c \in WriteCalls :
    /\ wc[c].pc = "done" /\ wc[c].fn = "createSupportTicket"
    /\ wc[c].initialMessage # <<>> /\ wc[c].docWrites = 2
    /\ \E userId \in wc[c].userId :
         messages[userId][Len(messages[userId])].text = Trim(wc[c].initialMessage)

\* C20: the supportThreads documents are keyed by user id: each document's
\* id is the user id it records, so no two documents belong to one user,
\* and a step of createSupportTicket adds a document only for a user id
\* that had none, updating the existing document otherwise.
C20_State ==
  /\ \A th \in DOMAIN threads : threads[th].userId = th
  /\ \A a, b \in DOMAIN threads : threads[a].userId = threads[b].userId => a = b

C20_Step ==
  /\ DOMAIN threads \subseteq DOMAIN threads'
  /\ \A th \in DOMAIN threads' \ DOMAIN threads :
       \E c \in WriteCalls :
         /\ wc[c].fn = "createSupportTicket" /\ wc[c].pc = "writeThread"
         /\ wc[c].userId = {th}

MaxHookFetches == 2

\* useDashboardStats catch: the default statistics.
DefaultStats == [thrown |-> FALSE, totalUsers |-> 0, activeUsers |-> 0]

\* userService.getUsers: the page of users; its catch returns the empty
\* result when the read fails.
GetUsers(docs, readOk) ==
  IF readOk THEN [users |-> DOMAIN docs, total |-> Cardinality(DOMAIN docs)]
  ELSE [users |-> {}, total |-> 0]

\* fetchStats / fetchUsers up to the await.
StartHookFetch(h) ==
  [h EXCEPT !.loading = TRUE, !.error = None, !.started = @ + 1,
            !.inflight = @ \cup {h.started + 1}]

\* First render and effect of the hook: one fetch in flight.
MountHook(kind, range, now, docs) ==
  StartHookFetch([kind |-> kind, dateRange |-> range, now |-> now, docs |-> docs,
                  data |-> {}, loading |-> TRUE, error |-> None,
                  inflight |-> {}, started |-> 0, settled |-> {}])

\* refresh() is called, or a dependency changed and the effect ran again.
HookFetchAgain ==
  /\ hook.started < MaxHookFetches
  /\ hook' = StartHookFetch(hook)

\* await getDashboardStats settles in fetchStats: setStats(data), or in the
\* catch setError(message) and setStats(defaults); finally setLoading(false).
FetchStatsSettles(f, env) ==
  /\ hook.kind = "useDashboardStats" /\ f \in hook.inflight
  /\ LET data == GetDashboardStats(hook.dateRange, hook.now, hook.docs, env)
         failed == ~(env.updatedAt /\ env.createdAt /\ env.scan)
     IN hook' = [hook EXCEPT
          !.data = IF data.thrown THEN {DefaultStats} ELSE {data},
          !.error = IF data.thrown THEN "Failed to load dashboard statistics" ELSE @,
          !.loading = FALSE, !.inflight = @ \ {f},
          !.settled = {[id |-> f, readFailed |-> failed]}]

\* await getUsers settles in fetchUsers: getUsers never rejects, so
\* setUsers / setTotal run; finally setLoading(false).
FetchUsersSettles(f, readOk) ==
  /\ hook.kind = "useUsers" /\ f \in hook.inflight
  /\ hook' = [hook EXCEPT
       !.data = {GetUsers(hook.docs, readOk)},
       !.loading = FALSE, !.inflight = @ \ {f},
       !.settled = {[id |-> f, readFailed |-> ~readOk]}]

\* What the consuming component renders: StatsOverview returns the skeleton
\* while loading and the error banner only if error && !stats; UsersPage
\* shows the error text whenever error is set.
Render(h) ==
  IF h.kind = "useDashboardStats"
    THEN IF h.loading THEN "skeleton"
         ELSE IF h.error # None /\ h.data = {} THEN "error"
         ELSE "cards"
    ELSE IF h.error # None THEN "error" ELSE "table"

InitErrors ==
  /\ \E now \in StatsNows, present \in SUBSET UserIds, kind \in {"useDashboardStats", "useUsers"} :
       \E range \in DashboardRanges :
         hook = MountHook(kind, range, now,
                          [u \in present |-> [createdAt |-> {Ago(now, 10)},
                                              updatedAt |-> {Ago(now, 2)}]])
  /\ UsersUnused /\ ContentUnused /\ ReplyUnused /\ PureUnused

NextErrors ==
  \/ HookFetchAgain /\ UNCHANGED <<usersVars, contentVars, replyVars, pureVars>>
  \/ \E f \in hook.inflight, env \in Envs :
       FetchStatsSettles(f, env) /\ UNCHANGED <<usersVars, contentVars, replyVars, pureVars>>
  \/ \E f \in hook.inflight, readOk \in BOOLEAN :
       FetchUsersSettles(f, readOk) /\ UNCHANGED <<usersVars, contentVars, replyVars, pureVars>>

SpecErrors == InitErrors /\ [][NextErrors]_vars

\* C15: when a fetch has settled and a store read made for it failed, the
\* hook's error state is non-null and the consuming component renders the
\* error message.
C15_FailureSurfaced ==
  \A s \in hook.settled :
    (s.readFailed /\ hook.inflight = {}) =>
      (hook.error # None /\ Render(hook) = "error")

(***************************************************************************)
(* analyticsService.calculateDateRange with the custom dates.  A custom    *)
(* date argument is undefined, the empty string, or the date-only text     *)
(* "YYYY-MM-DD" of a day (the format AnalyticsPage produces), which        *)
(* new Date() reads as midnight UTC of that day.  tz is the local zone's   *)
(* offset from UTC in hours.                                               *)
(***************************************************************************)
UndefinedDate == [kind |-> "undefined", day |-> 0]
EmptyDate == [kind |-> "empty", day |-> 0]
DateText(day) == [kind |-> "date", day |-> day]

\* new Date("YYYY-MM-DD") as a local civil instant.
NewDateFromText(text, tz) ==
  LET ms == tz * (MsPerDay \div 24)
  IN IF ms >= 0 THEN [day |-> text.day, ms |-> ms]
     ELSE [day |-> text.day - 1, ms |-> MsPerDay + ms]

\* calculateDateRange(range, customStartDate, customEndDate)
CalculateDateRangeCustom(range, customStartDate, customEndDate, now, tz) ==
  IF range = "custom" /\ customStartDate.kind = "date" /\ customEndDate.kind = "date"
    THEN [start |-> SetHours(NewDateFromText(customStartDate, tz), 0),
          end |-> SetHours(NewDateFromText(customEndDate, tz), EndOfDay)]
    ELSE CalculateDateRange(range, now)

MaxCustomDay == 2
CustomDates ==
  {UndefinedDate, EmptyDate}
    \cup {DateText(YearStart(BaseYear) + d) : d \in 0..MaxCustomDay}
TimeZones == {-5, 0, 5}

InitCustomRange ==
  /\ args \in [range : {"custom", "last_30_days"}, customStartDate : CustomDates,
               customEndDate : CustomDates,
               now : [day : {YearStart(BaseYear) + 40}, ms : {0, MsPerDay \div 2}],
               tz : TimeZones]
  /\ ret = <<>>
  /\ UsersUnused /\ ContentUnused /\ ReplyUnused /\ HookUnused

CallCalculateDateRange ==
  /\ ~Returned
  /\ ret' = <<CalculateDateRangeCustom(args.range, args.customStartDate,
                                        args.customEndDate, args.now, args.tz)>>
  /\ UNCHANGED <<args, usersVars, contentVars, replyVars, hook>>

NextCustomRange == CallCalculateDateRange

SpecCustomRange == InitCustomRange /\ [][NextCustomRange]_vars

\* C17: calculateDateRange("custom", s, e) equals the last_7_days range
\* when s or e is missing or empty, and otherwise is start = s at
\* 00:00:00.000 and end = e at 23:59:59.999.
C17_CustomRange ==
  (Returned /\ args.range = "custom") =>
    IF args.customStartDate.kind = "date" /\ args.customEndDate.kind = "date"
      THEN /\ Result.start = [day |-> args.customStartDate.day, ms |-> 0]
           /\ Result.end = [day |-> args.customEndDate.day, ms |-> EndOfDay]
      ELSE Result = CalculateDateRange("last_7_days", args.now)

(***************************************************************************)
(* analyticsService.getArticleFavoritesCount and getTopArticles.  favs     *)
(* maps a user id to its favoriteArticles documents in snapshot order,     *)
(* articles maps an article id to its createdAt; an article's id stands    *)
(* for its title.  env tells which reads succeed; order is the order in    *)
(* which the parallel favorites reads of a batch resolve.                  *)
(***************************************************************************)
TopLimit == 5
MaxArticles == 6
ArticleIds == 1..MaxArticles

\* createdAt && createdAt >= startDate && createdAt <= endDate
InDateRange(createdAt, range) ==
  \E t \in createdAt : Within(t, range.start, range.end)

\* favoritesCount.set(articleId, {title, count + 1}) for one favorite.
CountFavorite(counts, fav, range) ==
  IF ~InDateRange(fav.createdAt, range) THEN counts
  ELSE IF \E i \in 1..Len(counts) : counts[i].articleId = fav.articleId
    THEN [i \in 1..Len(counts) |->
            IF counts[i].articleId = fav.articleId
              THEN [counts[i] EXCEPT !.count = @ + 1] ELSE counts[i]]
    ELSE Append(counts, [articleId |-> fav.articleId, title |-> fav.articleId, count |-> 1])

RECURSIVE CountSnapshot(_, _, _)
\* snapshot.forEach over one user's favoriteArticles.
CountSnapshot(counts, snapshot, range) ==
  IF snapshot = <<>> THEN counts
  ELSE CountSnapshot(CountFavorite(counts, Head(snapshot), range), Tail(snapshot), range)

RECURSIVE CountUsers(_, _, _, _, _)
\* The batch loop: a user whose favorites read fails is skipped.
CountUsers(counts, order, favs, range, env) ==
  IF order = <<>> THEN counts
  ELSE CountUsers(IF env.favorites[Head(order)]
                    THEN CountSnapshot(counts, favs[Head(order)], range)
                    ELSE counts,
                  Tail(order), favs, range, env)

\* getArticleFavoritesCount(startDate, endDate): the Map entries in
\* insertion order; [] when the users read fails.
GetArticleFavoritesCount(favs, range, env, order) ==
  IF ~env.users THEN <<>> ELSE CountUsers(<<>>, order, favs, range, env)

RECURSIVE InsertByCount(_, _)
\* Stable insertion for sort((a, b) => b.count - a.count).
InsertByCount(sorted, item) ==
  IF sorted = <<>> THEN <<item>>
  ELSE IF Head(sorted).count >= item.count
         THEN <<Head(sorted)>> \o InsertByCount(Tail(sorted), item)
         ELSE <<item>> \o sorted

RECURSIVE SortByCount(_)
SortByCount(items) ==
  IF items = <<>> THEN <<>>
  ELSE InsertByCount(SortByCount(SubSeq(items, 1, Len(items) - 1)), items[Len(items)])

\* slice(0, n) / limit(n)
Take(s, n) == SubSeq(s, 1, IF Len(s) < n THEN Len(s) ELSE n)

RECURSIVE NewestFirst(_, _)
\* orderBy("createdAt", "desc") over the article ids in ids.
NewestFirst(ids, articles) ==
  IF ids = {} THEN <<>>
  ELSE LET newest == CHOOSE a \in ids :
                       \A b \in ids \ {a} :
                         \E ta \in articles[a], tb \in articles[b] :
                           Before(tb, ta) \/ (ta = tb /\ a < b)
       IN <<newest>> \o NewestFirst(ids \ {newest}, articles)

\* A getTopArticles that returns every counted article.
GetTopArticlesUnsliced(now, range, favs, articles, env, order) ==
  LET dates == CalculateDateRange(range, now)
      favoritesCount == GetArticleFavoritesCount(favs, dates, env, order)
      top == SortByCount(favoritesCount)
      recent == Take(NewestFirst({a \in DOMAIN articles :
                                    InDateRange(articles[a], dates)}, articles), TopLimit)
  IN IF favoritesCount # <<>>
       THEN [i \in 1..Len(top) |-> [title |-> top[i].title, views |-> top[i].count]]
     ELSE IF ~env.articles THEN <<>>
     ELSE [i \in 1..Len(recent) |-> [title |-> recent[i], views |-> 0]]

\* getTopArticles(range)
GetTopArticles(now, range, favs, articles, env, order) ==
  LET dates == CalculateDateRange(range, now)
      favoritesCount == GetArticleFavoritesCount(favs, dates, env, order)
      top == Take(SortByCount(favoritesCount), TopLimit)
      recent == Take(NewestFirst({a \in DOMAIN articles :
                                    InDateRange(articles[a], dates)}, articles), TopLimit)
  IN IF favoritesCount # <<>>
       THEN [i \in 1..Len(top) |-> [title |-> top[i].title, views |-> top[i].count]]
     ELSE IF ~env.articles THEN <<>>
     ELSE [i \in 1..Len(recent) |-> [title |-> recent[i], views |-> 0]]

FavUsers == {"u1", "u2"}
FavOrders == {<<"u1", "u2">>, <<"u2", "u1">>}

RECURSIVE AscendingSeq(_)
\* The members of a set of numbers in ascending order.
AscendingSeq(S) ==
  IF S = {} THEN <<>>
  ELSE LET least == CHOOSE x \in S : \A y \in S : x <= y
       IN <<least>> \o AscendingSeq(S \ {least})

\* Favorites of the articles in ids, in id order, all created at one time.
FavoritesAt(ids, createdAt) ==
  LET ordered == AscendingSeq(ids)
  IN [i \in 1..Len(ordered) |-> [articleId |-> ordered[i], createdAt |-> createdAt]]

\* The favoriteArticles collections tried: u1 favorited any set of articles
\* within the range; u2 the last article (in range, out of range or
\* undated) and possibly the first.
FavsAt(now) ==
  {[u \in FavUsers |-> IF u = "u1" THEN FavoritesAt(s1, {Ago(now, 1)})
                        ELSE FavoritesAt(lastFav, stamp) \o FavoritesAt(firstFav, {Ago(now, 2)})] :
     s1 \in SUBSET ArticleIds, lastFav \in {{}, {MaxArticles}},
     stamp \in {{}, {Ago(now, 3)}, {Ago(now, 400)}}, firstFav \in {{}, {1}}}

\* The articles collections tried: the first k articles created within the
\* range, article a being a days old, the others long before it.
ArticlesAt(now) ==
  {[a \in ArticleIds |-> IF a <= k THEN {Ago(now, a)} ELSE {Ago(now, 400)}] :
     k \in {0, 2, MaxArticles}}

TopEnvs == [users : BOOLEAN, favorites : [FavUsers -> BOOLEAN], articles : BOOLEAN]

InitTopArticles ==
  /\ LET now == [day |-> YearStart(BaseYear) + 10, ms |-> MsPerDay \div 2]
     IN args \in [now : {now}, range : {"last_7_days"}, favs : FavsAt(now),
                  articles : ArticlesAt(now), env : TopEnvs]
  /\ ret = <<>>
  /\ UsersUnused /\ ContentUnused /\ ReplyUnused /\ HookUnused

CallGetTopArticles ==
  /\ ~Returned
  /\ \E order \in FavOrders :
       ret' = <<GetTopArticles(args.now, args.range, args.favs, args.articles,
                               args.env, order)>>
  /\ UNCHANGED <<args, usersVars, contentVars, replyVars, hook>>

NextTopArticles == CallGetTopArticles

SpecTopArticles == InitTopArticles /\ [][NextTopArticles]_vars

TopDates == CalculateDateRange(args.range, args.now)

\* The in-range favorites of article a, over every user.
FavoriteCount(a) ==
  Cardinality({<<u, i>> \in FavUsers \X (1..(MaxArticles + 2)) :
                 /\ i <= Len(args.favs[u])
                 /\ args.favs[u][i].articleId = a
                 /\ InDateRange(args.favs[u][i].createdAt, TopDates)})

\* The same as the scan sees them: only of users whose favorites were read.
SeenCount(a) ==
  Cardinality({<<u, i>> \in FavUsers \X (1..(MaxArticles + 2)) :
                 /\ args.env.users /\ args.env.favorites[u]
                 /\ i <= Len(args.favs[u])
                 /\ args.favs[u][i].articleId = a
                 /\ InDateRange(args.favs[u][i].createdAt, TopDates)})

\* res lists min(5, |ids|) distinct members of ids, each with views
\* count(title), in descending order of views, and no member left out has
\* a higher count than a listed one.
IsTopByCount(res, ids, count(_)) ==
  /\ Len(res) = (IF Cardinality(ids) < TopLimit THEN Cardinality(ids) ELSE TopLimit)
  /\ \A i \in 1..Len(res) : res[i].title \in ids /\ res[i].views = count(res[i].title)
  /\ \A i, j \in 1..Len(res) : i < j =>
       (res[i].views >= res[j].views /\ res[i].title # res[j].title)
  /\ \A a \in ids : (\A i \in 1..Len(res) : res[i].title # a) =>
       \A i \in 1..Len(res) : res[i].views >= count(a)

\* res lists the newest min(5, |ids|) articles of ids, newest first, with
\* views 0.
IsNewest(res, ids) ==
  /\ Len(res) = (IF Cardinality(ids) < TopLimit THEN Cardinality(ids) ELSE TopLimit)
  /\ \A i \in 1..Len(res) : res[i].title \in ids /\ res[i].views = 0
  /\ \A i, j \in 1..Len(res) : i < j => res[i].title < res[j].title
  /\ \A a \in ids : (\A i \in 1..Len(res) : res[i].title # a) =>
       \A i \in 1..Len(res) : res[i].title < a

\* C16 as stated: at most 5 entries in descending order of count; if some
\* favorite was created within the range they are the articles with the
\* highest in-range favorite counts, with views that count; only if no
\* favorite is in range, the most recently created articles with views 0.
C16_TopFiveAsStated ==
  Returned =>
    /\ Len(Result) <= TopLimit
    /\ IF \E a \in ArticleIds : FavoriteCount(a) > 0
         THEN IsTopByCount(Result, {a \in ArticleIds : FavoriteCount(a) > 0}, FavoriteCount)
         ELSE IsNewest(Result, ArticleIds)

\* C16 (amended): at most 5 entries in descending order of views; if the
\* scan saw a favorite created within the range (the users read and that
\* user's favorites read succeeded) they are the articles with the highest
\* counts of favorites seen, with views that count; otherwise the most
\* recently created articles among those created within the range, with
\* views 0, and nothing if the articles query fails.
C16_TopFive ==
  Returned =>
    /\ Len(Result) <= TopLimit
    /\ IF \E a \in ArticleIds : SeenCount(a) > 0
         THEN IsTopByCount(Result, {a \in ArticleIds : SeenCount(a) > 0}, SeenCount)
         ELSE IF args.env.articles
           THEN IsNewest(Result, {a \in ArticleIds : InDateRange(args.articles[a], TopDates)})
           ELSE Result = <<>>

C16_Witness ==
  /\ Returned /\ Len(Result) = TopLimit
  /\ Cardinality({a \in ArticleIds : SeenCount(a) > 0}) > TopLimit
  /\ Result[1].views = 2 /\ Result[1].title = MaxArticles

(***************************************************************************)
(* ChangePasswordModal.handleSubmit and validation.validatePassword.  A    *)
(* password is the sequence of its characters; Len is the string's JS      *)
(* length.  page holds the modal's React state, the signed-in user of      *)
(* useAuth, the Firebase Auth password of that account, the position of    *)
(* the running handleSubmit (pc, with the values its closure captured) and *)
(* the credential calls that invocation has made so far.                   *)
(***************************************************************************)
MinPasswordLength == 8

Rep(ch, n) == [i \in 1..n |-> ch]
IsLetter(ch) == ch \in {"a", "Z"}
IsDigit(ch) == ch \in {"1", "9"}
HasLetter(password) == \E i \in 1..Len(password) : IsLetter(password[i])
HasNumber(password) == \E i \in 1..Len(password) : IsDigit(password[i])

ValidatePassword(password) ==
  IF password = <<>> THEN "Password is required"
  ELSE IF Len(password) < MinPasswordLength
    THEN "Password must be at least 8 characters long"
  ELSE IF ~HasLetter(password) \/ ~HasNumber(password)
    THEN "Password must contain both letters and numbers"
  ELSE None

Passwords ==
  { <<>>,
    Rep("a", MinPasswordLength),
    Rep("1", MinPasswordLength),
    <<"Z">> \o Rep("1", MinPasswordLength - 2),
    <<"Z">> \o Rep("1", MinPasswordLength - 1),
    <<"9">> \o Rep("a", MinPasswordLength - 1) }

AuthUsers ==
  { [firebaseUser |-> FALSE, email |-> ""],
    [firebaseUser |-> TRUE, email |-> ""],
    [firebaseUser |-> TRUE, email |-> "a@x"] }

CredentialErrors ==
  [code : {"auth/wrong-password", "auth/weak-password",
           "auth/requires-recent-login", "auth/network-request-failed",
           "auth/too-many-requests"}, message : {"Firebase: Error"}]
    \cup { [code |-> "auth/internal-error", message |-> "Firebase: Error"],
           [code |-> "", message |-> ""] }

\* the catch block of handleSubmit
ErrorText(err) ==
  IF err.code = "auth/wrong-password" THEN "Current password is incorrect."
  ELSE IF err.code = "auth/weak-password" THEN "The new password is too weak."
  ELSE IF err.code = "auth/requires-recent-login"
    THEN "Please log in again and then change your password."
  ELSE IF err.code = "auth/network-request-failed"
    THEN "Network error. Please check your connection."
  ELSE IF err.code = "auth/too-many-requests"
    THEN "Too many requests. Please try again later."
  ELSE IF err.message # "" THEN err.message
  ELSE "Failed to update password. Please try again."

EmptyForm == [currentPassword |-> <<>>, nextPassword |-> <<>>,
              confirmPassword |-> <<>>]

InitPassword ==
  /\ page \in [open : {TRUE}, form : {EmptyForm}, error : {None},
               submitting : {FALSE}, user : AuthUsers,
               accountPassword : {<<"Z">> \o Rep("1", MinPasswordLength - 1)},
               pc : {"idle"}, captured : {EmptyForm}, calls : {<<>>}]
  /\ content = <<>> /\ wc = <<>>
  /\ UsersUnused /\ ReplyUnused /\ HookUnused /\ PureUnused

PasswordFrame == UNCHANGED <<content, wc, usersVars, replyVars, hook, pureVars>>

\* onChange of one of the three inputs
SetField(field, value) ==
  /\ page.open
  /\ page' = [page EXCEPT !.form = [@ EXCEPT ![field] = value]]
  /\ PasswordFrame

\* the parent opens the modal again
OpenModal ==
  /\ ~page.open
  /\ page' = [page EXCEPT !.open = TRUE]
  /\ PasswordFrame

\* handleClose: Cancel is disabled while submitting, the modal's own close
\* control is not
HandleClose ==
  /\ page.open
  /\ page' = [page EXCEPT !.form = EmptyForm, !.error = None, !.open = FALSE]
  /\ PasswordFrame

\* the first validation of handleSubmit that fails, None when all pass
SubmitErrorUnmatched(p) ==
  IF p.form.currentPassword = <<>> \/ p.form.nextPassword = <<>>
     \/ p.form.confirmPassword = <<>> THEN "Please fill in all fields."
  ELSE IF ValidatePassword(p.form.nextPassword) # None
    THEN ValidatePassword(p.form.nextPassword)
  ELSE IF ~p.user.firebaseUser \/ p.user.email = ""
    THEN "No logged in user found."
  ELSE None

SubmitError(p) ==
  IF p.form.currentPassword = <<>> \/ p.form.nextPassword = <<>>
     \/ p.form.confirmPassword = <<>> THEN "Please fill in all fields."
  ELSE IF p.form.nextPassword # p.form.confirmPassword
    THEN "New passwords do not match."
  ELSE IF ValidatePassword(p.form.nextPassword) # None
    THEN ValidatePassword(p.form.nextPassword)
  ELSE IF ~p.user.firebaseUser \/ p.user.email = ""
    THEN "No logged in user found."
  ELSE None

CredentialCall(fn) == [fn |-> fn, settled |-> FALSE, ok |-> FALSE]
Settle(calls, ok) ==
  [calls EXCEPT ![Len(calls)] = [@ EXCEPT !.settled = TRUE, !.ok = ok]]

\* handleSubmit up to its first await: the Save button is disabled while
\* submitting
HandleSubmit ==
  /\ page.open /\ ~page.submitting /\ page.pc = "idle"
  /\ page' =
       IF SubmitError(page) # None
         THEN [page EXCEPT !.error = SubmitError(page), !.calls = <<>>]
         ELSE [page EXCEPT !.error = None, !.submitting = TRUE,
                           !.pc = "reauthenticate", !.captured = page.form,
                           !.calls = <<CredentialCall("reauthenticateWithCredential")>>]
  /\ PasswordFrame

\* reauthenticateWithCredential resolves and updatePassword is called
ReauthenticateOk ==
  /\ page.pc = "reauthenticate"
  /\ page.captured.currentPassword = page.accountPassword
  /\ page' = [page EXCEPT !.pc = "updatePassword",
                          !.calls = Append(Settle(page.calls, TRUE),
                                           CredentialCall("updatePassword"))]
  /\ PasswordFrame

\* either credential call rejects: the catch block
CredentialCallFails(err) ==
  /\ page.pc \in {"reauthenticate", "updatePassword"}
  /\ err.code = "auth/wrong-password" =>
       /\ page.pc = "reauthenticate"
       /\ page.captured.currentPassword # page.accountPassword
  /\ (page.pc = "reauthenticate"
      /\ page.captured.currentPassword # page.accountPassword) =>
       err.code \in {"auth/wrong-password", "auth/network-request-failed",
                     "auth/too-many-requests"}
  /\ page' = [page EXCEPT !.pc = "idle", !.submitting = FALSE,
                          !.error = ErrorText(err),
                          !.calls = Settle(page.calls, FALSE)]
  /\ PasswordFrame

\* updatePassword resolves: setSubmitting(false); handleClose()
UpdatePasswordOk ==
  /\ page.pc = "updatePassword"
  /\ page' = [page EXCEPT !.pc = "idle", !.submitting = FALSE,
                          !.accountPassword = page.captured.nextPassword,
                          !.calls = Settle(page.calls, TRUE),
                          !.form = EmptyForm, !.error = None, !.open = FALSE]
  /\ PasswordFrame

NextPassword ==
  \/ \E field \in DOMAIN EmptyForm, value \in Passwords : SetField(field, value)
  \/ OpenModal
  \/ HandleClose
  \/ HandleSubmit
  \/ ReauthenticateOk
  \/ \E err \in CredentialErrors : CredentialCallFails(err)
  \/ UpdatePasswordOk

SpecPassword == InitPassword /\ [][NextPassword]_vars

\* the validations as the claim lists them, on the form and user of p
AllValidationsPass(p) ==
  /\ p.form.currentPassword # <<>> /\ p.form.nextPassword # <<>>
  /\ p.form.confirmPassword # <<>>
  /\ p.form.nextPassword = p.form.confirmPassword
  /\ Len(p.form.nextPassword) >= 8
  /\ \E i \in 1..Len(p.form.nextPassword) : IsLetter(p.form.nextPassword[i])
  /\ \E i \in 1..Len(p.form.nextPassword) : IsDigit(p.form.nextPassword[i])
  /\ p.user.firebaseUser /\ p.user.email # ""

C18_State ==
  /\ \A i \in 1..Len(page.calls) :
       page.calls[i].fn = "updatePassword" =>
         /\ i > 1
         /\ page.calls[i - 1] = [fn |-> "reauthenticateWithCredential",
                                 settled |-> TRUE, ok |-> TRUE]
  /\ page.pc = "idle" => ~page.submitting
  /\ page.submitting =>
       /\ page.calls # <<>>
       /\ ~page.calls[Len(page.calls)].settled

C18_Step ==
  (page.pc = "idle" /\ page'.calls # <<>>
   /\ ~page'.calls[Len(page'.calls)].settled) => AllValidationsPass(page)

\* C18: a credential call is made only by a submission whose validations
\* all passed (three fields non-empty, new password equal to the
\* confirmation, at least 8 characters with a letter and a digit, a
\* signed-in user with an email); updatePassword is called only after
\* reauthenticateWithCredential succeeded; and submitting is true only
\* while a credential call is outstanding, so it is false after every
\* outcome.
C18_ValidatedThenReauthenticated == []C18_State /\ [][C18_Step]_vars

C18_Witness ==
  /\ Len(page.calls) = 2 /\ page.calls[2].settled /\ page.calls[2].ok
  /\ ~page.submitting /\ page.pc = "idle"
  /\ page.accountPassword = <<"9">> \o Rep("a", MinPasswordLength - 1)

(***************************************************************************)
(* ContentManagementPage with its two data hooks, useArticles and          *)
(* useEducationContent.  page.articles and page.videos are the hooks'      *)
(* data (document id -> title), page.otherItems the local list,            *)
(* page.editingItem the item of the open edit modal, page.initialFetch the *)
(* collections whose mount fetch is outstanding, page.h the asynchronous   *)
(* handler invocations in flight and page.last the handler the last step   *)
(* invoked with the branch it took.  An item is [id, kind, title].         *)
(* Firestore ids of the two collections and the String(Date.now()) ids of  *)
(* local items are 20-character and 13-digit strings: DocKey and LocalId   *)
(* keep the three id spaces apart.                                         *)
(***************************************************************************)
MaxPageHandlers == 1
PageHandlers == 1..MaxPageHandlers
MaxLocalItems == 1
MaxPageDocs == 2
CreatedTitles == {"t1"}
EditedTitles == {"t2"}

DocKey(coll, id) == IF coll = "articles" THEN id ELSE MaxContentDocs + id
RawId(coll, key) == IF coll = "articles" THEN key ELSE key - MaxContentDocs
LocalId(t) == 2 * MaxContentDocs + t
KindOf(coll) == IF coll = "articles" THEN "article" ELSE "video"

\* mapFirestoreArticleToContentItem / mapFirestoreEducationContentToContentItem
ItemsOf(coll, data) ==
  {[id |-> DocKey(coll, i), kind |-> KindOf(coll), title |-> data[i].title] :
     i \in DOMAIN data}

Range(s) == {s[i] : i \in DOMAIN s}

\* allItems = [...articles, ...videos, ...otherItems]
AllItems(p) ==
  ItemsOf("articles", p.articles) \cup ItemsOf("educationContent", p.videos)
    \cup Range(p.otherItems)

IdleFrame == [pc |-> "idle", op |-> None, coll |-> None, kind |-> None,
              id |-> 0, title |-> None, closeEdit |-> FALSE]
NoCall == [op |-> None, kind |-> None, branch |-> None]
Invoked(op, kind, branch) == [op |-> op, kind |-> kind, branch |-> branch]

MountedPage ==
  [articles |-> <<>>, videos |-> <<>>, otherItems |-> <<>>, editingItem |-> {},
   initialFetch |-> Collections, h |-> [x \in PageHandlers |-> IdleFrame],
   last |-> NoCall]

InitPage ==
  /\ page = MountedPage
  /\ content = [coll \in Collections |->
                  IF coll = "articles"
                    THEN [id \in 1..MaxPageDocs |-> [title |-> "t1"]]
                    ELSE <<>>]
  /\ wc = <<>>
  /\ UsersUnused /\ ReplyUnused /\ HookUnused /\ PureUnused

PageFrame == UNCHANGED <<wc, usersVars, replyVars, hook, pureVars>>

\* setArticles / setVideos at the end of fetchArticles / fetchVideos
SetHookData(p, coll, ok) ==
  LET data == IF ok THEN content[coll] ELSE <<>>
  IN IF coll = "articles" THEN [p EXCEPT !.articles = data]
     ELSE [p EXCEPT !.videos = data]

\* the fetch a hook starts on mount settles
InitialFetchSettles(coll, ok) ==
  /\ coll \in page.initialFetch
  /\ page' = [SetHookData(page, coll, ok) EXCEPT
                !.initialFetch = @ \ {coll}, !.last = NoCall]
  /\ UNCHANGED content /\ PageFrame

FreeHandler(x) ==
  /\ page.h[x].pc = "idle"
  /\ \A y \in PageHandlers : y < x => page.h[y].pc # "idle"

StoreCall(op, coll, id, title, closeEdit) ==
  [pc |-> "write", op |-> op, coll |-> coll, kind |-> KindOf(coll), id |-> id,
   title |-> title, closeEdit |-> closeEdit]

\* largest Date.now() among the local items
LatestLocal(items) ==
  IF items = <<>> THEN 1
  ELSE CHOOSE t \in 1..MaxLocalItems :
         /\ \E i \in DOMAIN items : items[i].id = LocalId(t)
         /\ \A i \in DOMAIN items : items[i].id <= LocalId(t)

\* handleCreateLesson -> addItem("lesson", values); Date.now() is t
HandleCreateLesson(t, title) ==
  /\ Len(page.otherItems) < MaxLocalItems
  /\ t \in LatestLocal(page.otherItems)..MaxLocalItems
  /\ page' = [page EXCEPT
       !.otherItems = <<[id |-> LocalId(t), kind |-> "lesson", title |-> title]>> \o @,
       !.last = Invoked("create", "lesson", "local")]
  /\ UNCHANGED content /\ PageFrame

\* handleCreateArticle / handleCreateVideo up to the awaited create call
HandleCreateStored(x, coll, title) ==
  /\ FreeHandler(x)
  /\ page' = [page EXCEPT !.h[x] = StoreCall("create", coll, 0, title, FALSE),
                          !.last = Invoked("create", KindOf(coll), "store")]
  /\ UNCHANGED content /\ PageFrame

\* handleEditRequest on a row of the table
HandleEditRequest(item) ==
  /\ item \in AllItems(page)
  /\ page' = [page EXCEPT !.editingItem = {item}, !.last = NoCall]
  /\ UNCHANGED content /\ PageFrame

\* onClose of the edit modal
CloseEditModal ==
  /\ page.editingItem # {}
  /\ page' = [page EXCEPT !.editingItem = {}, !.last = NoCall]
  /\ UNCHANGED content /\ PageFrame

\* the collection whose hook data holds the id, None when neither does
CollectionHolding(p, id) ==
  IF \E i \in DOMAIN p.articles : DocKey("articles", i) = id THEN "articles"
  ELSE IF \E i \in DOMAIN p.videos : DocKey("educationContent", i) = id
    THEN "educationContent"
  ELSE None

\* handleUpdate(editingItem.id, values), from the edit modal, which exists
\* for the kinds article, lesson and video
HandleUpdate(x, title) ==
  \E e \in page.editingItem :
    LET coll == CollectionHolding(page, e.id)
    IN /\ e.kind \in {"article", "lesson", "video"}
       /\ IF coll # None
            THEN /\ FreeHandler(x)
                 /\ page' = [page EXCEPT
                      !.h[x] = StoreCall("update", coll, RawId(coll, e.id), title, FALSE),
                      !.last = Invoked("update", e.kind, "store")]
            ELSE /\ x = 1
                 /\ page' = [page EXCEPT
                      !.otherItems = [i \in DOMAIN @ |->
                                        IF @[i].id = e.id
                                          THEN [@[i] EXCEPT !.title = title]
                                          ELSE @[i]],
                      !.editingItem = {},
                      !.last = Invoked("update", e.kind, "local")]
       /\ UNCHANGED content /\ PageFrame

\* xs without the items whose id is id
WithoutId(xs, id) == SelectSeq(xs, LAMBDA it : it.id # id)

\* handleDelete(item.id) on a row of the table, the confirm accepted
HandleDelete(x, item) ==
  LET coll == CollectionHolding(page, item.id)
      closeEdit == \E e \in page.editingItem : e.id = item.id
  IN /\ item \in AllItems(page)
     /\ IF coll # None
          THEN /\ FreeHandler(x)
               /\ page' = [page EXCEPT
                    !.h[x] = StoreCall("delete", coll, RawId(coll, item.id),
                                       None, closeEdit),
                    !.last = Invoked("delete", item.kind, "store")]
          ELSE /\ x = 1
               /\ page' = [page EXCEPT
                    !.otherItems = WithoutId(@, item.id),
                    !.editingItem = IF closeEdit THEN {} ELSE @,
                    !.last = Invoked("delete", item.kind, "local")]
     /\ UNCHANGED content /\ PageFrame

\* the awaited createX / updateX / deleteX resolves and the refetch starts
StoreWriteOk(x) ==
  LET f == page.h[x]
  IN /\ f.pc = "write"
     /\ CASE f.op = "create" ->
               /\ Cardinality(DOMAIN content[f.coll]) < MaxPageDocs
               /\ content' = [content EXCEPT ![f.coll] =
                                Put(@, FreshId(f.coll), [title |-> f.title])]
          [] f.op = "update" ->
               /\ f.id \in DOMAIN content[f.coll]
               /\ content' = [content EXCEPT ![f.coll][f.id].title = f.title]
          [] f.op = "delete" ->
               content' = [content EXCEPT ![f.coll] = Remove(@, f.id)]
     /\ page' = [page EXCEPT !.h[x].pc = "refetch", !.last = NoCall]
     /\ PageFrame

\* it rejects: the handler's catch alerts
StoreWriteFails(x) ==
  /\ page.h[x].pc = "write"
  /\ page' = [page EXCEPT !.h[x] = IdleFrame, !.last = NoCall]
  /\ UNCHANGED content /\ PageFrame

\* the awaited refetch settles (fetchArticles / fetchVideos never reject)
\* and the handler runs to its end
RefetchSettles(x, ok) ==
  LET f == page.h[x]
      p == SetHookData(page, f.coll, ok)
  IN /\ f.pc = "refetch"
     /\ page' = [p EXCEPT
          !.h[x] = IdleFrame,
          !.editingItem = IF f.op = "update" \/ f.closeEdit THEN {} ELSE @,
          !.last = NoCall]
     /\ UNCHANGED content /\ PageFrame

\* the browser reloads the page while no handler is in flight
Reload ==
  /\ \A x \in PageHandlers : page.h[x].pc = "idle"
  /\ page' = [MountedPage EXCEPT !.last = Invoked("reload", None, None)]
  /\ UNCHANGED content /\ PageFrame

NextPage ==
  \/ \E coll \in Collections, ok \in BOOLEAN : InitialFetchSettles(coll, ok)
  \/ \E t \in 1..MaxLocalItems, title \in CreatedTitles : HandleCreateLesson(t, title)
  \/ \E x \in PageHandlers, coll \in Collections, title \in CreatedTitles :
       HandleCreateStored(x, coll, title)
  \/ \E item \in AllItems(page) : HandleEditRequest(item)
  \/ CloseEditModal
  \/ \E x \in PageHandlers, title \in EditedTitles : HandleUpdate(x, title)
  \/ \E x \in PageHandlers, item \in AllItems(page) : HandleDelete(x, item)
  \/ \E x \in PageHandlers : StoreWriteOk(x)
  \/ \E x \in PageHandlers : StoreWriteFails(x)
  \/ \E x \in PageHandlers, ok \in BOOLEAN : RefetchSettles(x, ok)
  \/ Reload

SpecPage == InitPage /\ [][NextPage]_vars

LocalKinds == {"lesson", "link"}
StoredKinds == {"article", "video"}

C19_State ==
  /\ page.last.kind \in LocalKinds => page.last.branch = "local"
  /\ page.last.kind \in StoredKinds => page.last.branch = "store"
  /\ \A x \in PageHandlers :
       page.h[x].pc # "idle" => page.h[x].kind \in StoredKinds
  /\ page.last.op = "reload" =>
       /\ page.otherItems = <<>>
       /\ \A it \in AllItems(page) : it.kind \notin LocalKinds

C19_Step ==
  /\ page'.otherItems # page.otherItems =>
       \/ page'.last.kind \in LocalKinds /\ page'.last.branch = "local"
       \/ page'.last.op = "reload"
  /\ page'.last.kind \in LocalKinds =>
       /\ content' = content
       /\ page'.h = page.h
       /\ page'.articles = page.articles /\ page'.videos = page.videos

\* C19: create, update and delete of a lesson or link item change only
\* otherItems, with no store write and no refetch; create, update and
\* delete of an article or video item go to the store and leave otherItems
\* alone; after a reload otherItems is empty and no lesson or link item
\* exists.
C19_LocalKindsStayLocal == []C19_State /\ [][C19_Step]_vars

(***************************************************************************)
(* mailingService.getMailingLogs.  The letters collection is a sequence of *)
(* documents [letter, createdAt] in snapshot order; a user document        *)
(* carries an array of embedded letters [letter, date], date being the set *)
(* holding createdAt/generatedAt when the letter has one.  dateFilter is   *)
(* the set holding the window, empty for all_time.  A log keeps the source *)
(* it was built from, the letter it describes and its createdAt.           *)
(***************************************************************************)
MaxMailLetters == 2
MaxMailUsers == 1
MaxMailDay == 3
MailLetterIds == 1..MaxMailLetters
MailDays == 1..MaxMailDay

\* dateFilter && (createdAt < dateFilter.start || createdAt > dateFilter.end)
OutsideFilter(day, dateFilter) ==
  \E w \in dateFilter : day < w.start \/ day > w.end

\* the second lettersSnapshot.forEach
RECURSIVE LogsOfCollection(_, _)
LogsOfCollection(docs, dateFilter) ==
  IF docs = <<>> THEN <<>>
  ELSE LET d == Head(docs)
           rest == LogsOfCollection(Tail(docs), dateFilter)
       IN IF OutsideFilter(d.createdAt, dateFilter) THEN rest
          ELSE <<[source |-> "letters", letter |-> d.letter,
                  createdAt |-> d.createdAt]>> \o rest

\* letters.forEach of one user document
RECURSIVE LogsOfArray(_, _)
LogsOfArray(letters, dateFilter) ==
  IF letters = <<>> THEN <<>>
  ELSE LET l == Head(letters)
           rest == LogsOfArray(Tail(letters), dateFilter)
       IN IF l.date = {} THEN rest
          ELSE LET day == CHOOSE x \in l.date : TRUE
               IN IF OutsideFilter(day, dateFilter) THEN rest
                  ELSE <<[source |-> "users", letter |-> l.letter,
                          createdAt |-> day]>> \o rest

\* usersSnapshot.forEach
RECURSIVE LogsOfUsers(_, _)
LogsOfUsers(userDocs, dateFilter) ==
  IF userDocs = <<>> THEN <<>>
  ELSE LogsOfArray(Head(userDocs), dateFilter)
         \o LogsOfUsers(Tail(userDocs), dateFilter)

\* logs.sort((a, b) => b.createdAt.localeCompare(a.createdAt)), stable
RECURSIVE InsertLog(_, _)
InsertLog(sorted, log) ==
  IF sorted = <<>> THEN <<log>>
  ELSE IF Head(sorted).createdAt >= log.createdAt
    THEN <<Head(sorted)>> \o InsertLog(Tail(sorted), log)
  ELSE <<log>> \o sorted

RECURSIVE SortLogs(_)
SortLogs(logs) ==
  IF logs = <<>> THEN <<>>
  ELSE InsertLog(SortLogs(SubSeq(logs, 1, Len(logs) - 1)), logs[Len(logs)])

\* the letters query filters by createdAt when a window is given
LettersQuery(docs, dateFilter) ==
  SelectSeq(docs, LAMBDA d : ~OutsideFilter(d.createdAt, dateFilter))

GetMailingLogs(letterDocs, userDocs, dateFilter, env) ==
  LET fromCollection ==
        IF env.letters
          THEN LogsOfCollection(LettersQuery(letterDocs, dateFilter), dateFilter)
          ELSE <<>>
  IN IF ~env.users THEN [thrown |-> TRUE, logs |-> <<>>]
     ELSE [thrown |-> FALSE,
           logs |-> SortLogs(fromCollection \o LogsOfUsers(userDocs, dateFilter))]

\* input sets
RECURSIVE LetterDocsOf(_, _)
LetterDocsOf(ids, f) ==
  IF ids = {} THEN <<>>
  ELSE LET i == CHOOSE x \in ids : \A y \in ids : x <= y
       IN <<[letter |-> i, createdAt |-> f[i]]>> \o LetterDocsOf(ids \ {i}, f)

LetterCollections ==
  UNION {{LetterDocsOf(ids, f) : f \in [ids -> MailDays]} :
           ids \in SUBSET MailLetterIds}
EmbeddedLetters ==
  [letter : MailLetterIds, date : {{}} \cup {{d} : d \in MailDays \ {1}}]
MailUserDocs == SeqsUpTo(SeqsUpTo(EmbeddedLetters, MaxMailLetters), MaxMailUsers)
MailFilters == {{}, {[start |-> 2, end |-> MaxMailDay]}}

InitMailingLogs ==
  /\ args \in [letters : LetterCollections, users : MailUserDocs,
               dateFilter : MailFilters,
               env : [letters : BOOLEAN, users : BOOLEAN]]
  /\ ret = <<>>
  /\ UsersUnused /\ ContentUnused /\ ReplyUnused /\ HookUnused

CallGetMailingLogs ==
  /\ ~Returned
  /\ ret' = <<GetMailingLogs(args.letters, args.users, args.dateFilter, args.env)>>
  /\ UNCHANGED <<args, usersVars, contentVars, replyVars, hook>>

NextMailingLogs == CallGetMailingLogs

SpecMailingLogs == InitMailingLogs /\ [][NextMailingLogs]_vars

\* the letters of the collection whose createdAt lies in the window
InRangeLetters ==
  {args.letters[i].letter : i \in
     {j \in DOMAIN args.letters :
        \A w \in args.dateFilter :
          w.start <= args.letters[j].createdAt /\ args.letters[j].createdAt <= w.end}}

\* C21: when the letters-collection read succeeds, the logs returned by
\* getMailingLogs are exactly the in-range documents of that collection,
\* each letter once; the arrays embedded in user documents are used only
\* when that read fails.
C21_EmbeddedLettersOnlyFallback ==
  (Returned /\ args.env.letters /\ ~Result.thrown) =>
    /\ Len(Result.logs) = Cardinality(InRangeLetters)
    /\ {Result.logs[i].letter : i \in DOMAIN Result.logs} = InRangeLetters
    /\ \A i \in DOMAIN Result.logs : Result.logs[i].source = "letters"

(***************************************************************************)
(* The operations of the user layer that touch a users document, taken     *)
(* together: createUser (above) and updateUser, whose one write is an      *)
(* updateDoc.  wc is the updateUser invocation: its position, the uid it   *)
(* addresses and what it threw.  getUsers / useUsers only read.            *)
(***************************************************************************)
IdleUpdate == [pc |-> "idle", target |-> None, thrown |-> None]

\* updateUser(userId, updates) up to its awaited updateDoc
UpdateUserCall(uid) ==
  /\ wc.pc # "updateDoc"
  /\ wc' = [pc |-> "updateDoc", target |-> uid, thrown |-> None]
  /\ UNCHANGED <<authAccounts, users, cu>>

\* updateDoc resolves: the document exists and is changed in place
UpdateUserOk ==
  /\ wc.pc = "updateDoc"
  /\ wc.target \in users
  /\ wc' = [wc EXCEPT !.pc = "done"]
  /\ UNCHANGED <<authAccounts, users, cu>>

\* An updateUser that writes with set-and-merge, creating a missing document.
UpdateUserFailsUpserting ==
  /\ wc.pc = "updateDoc"
  /\ users' = users \cup {wc.target}
  /\ wc' = [wc EXCEPT !.pc = "done"]
  /\ UNCHANGED <<authAccounts, cu>>

\* updateDoc rejects (not-found for a missing document, or a store failure):
\* the catch rethrows
UpdateUserFails ==
  /\ wc.pc = "updateDoc"
  /\ wc' = [wc EXCEPT !.pc = "failed",
                      !.thrown = IF wc.target \in users THEN "unavailable"
                                 ELSE "not-found"]
  /\ UNCHANGED <<authAccounts, users, cu>>

InitUserLayer ==
  /\ InitUsers
  /\ wc = IdleUpdate
  /\ content = <<>> /\ page = None
  /\ ReplyUnused /\ HookUnused /\ PureUnused

UserLayerFrame == <<replyVars, content, page, hook, pureVars>>

NextUserLayer ==
  \/ \E c \in CreateCalls, e \in Emails :
       CreateUserCall(c, e) /\ UNCHANGED <<wc, UserLayerFrame>>
  \/ \E c \in CreateCalls : CreateUserAuthOk(c) /\ UNCHANGED <<wc, UserLayerFrame>>
  \/ \E c \in CreateCalls : CreateUserAuthFails(c) /\ UNCHANGED <<wc, UserLayerFrame>>
  \/ \E c \in CreateCalls : CreateUserSetDocOk(c) /\ UNCHANGED <<wc, UserLayerFrame>>
  \/ \E c \in CreateCalls : CreateUserSetDocFails(c) /\ UNCHANGED <<wc, UserLayerFrame>>
  \/ \E e \in Emails : UpdateUserCall(UidOf(e)) /\ UNCHANGED UserLayerFrame
  \/ UpdateUserOk /\ UNCHANGED UserLayerFrame
  \/ UpdateUserFails /\ UNCHANGED UserLayerFrame

SpecUserLayer == InitUserLayer /\ [][NextUserLayer]_vars

\* The account of e exists, its users document does not, and no createUser
\* call is between its two writes for e.
Orphaned(e) ==
  /\ e \in authAccounts
  /\ UidOf(e) \notin users
  /\ \A c \in CreateCalls : ~(cu[c].pc = "setDoc" /\ cu[c].email = e)

\* A createUser call for e gets the answer to its Auth request in this step.
AuthAnswered(c, e) ==
  cu[c].pc = "auth" /\ cu[c].email = e /\ cu'[c].pc # "auth"

C24_StepAsStated ==
  \A e \in Emails :
    Orphaned(e) =>
      /\ e \in authAccounts' /\ UidOf(e) \notin users'
      /\ \A c \in CreateCalls :
           AuthAnswered(c, e) =>
             /\ cu'[c].pc = "failed"
             /\ cu'[c].thrown = "An account already exists with this email address."
             /\ cu'[c].docWrites = 0

C24_Step ==
  \A e \in Emails :
    Orphaned(e) =>
      /\ e \in authAccounts' /\ UidOf(e) \notin users'
      /\ \A c \in CreateCalls :
           AuthAnswered(c, e) =>
             /\ cu'[c].pc = "failed"
             /\ cu'[c].thrown \in
                  {"An account already exists with this email address.",
                   CreateUserMessage("auth/network-request-failed")}
             /\ cu'[c].docWrites = 0

MaxLogins == 2
AdminRoles == {"superadmin", "support"}
AdminUid == "admin1"
AdminRecords ==
  {[exists |-> FALSE, role |-> None, isActive |-> FALSE]}
    \cup [exists : {TRUE}, role : AdminRoles, isActive : BOOLEAN]

AppUser(role) == [uid |-> AdminUid, role |-> role, isActive |-> TRUE]
\* hardcodedAdminData
HardcodedUser == AppUser("superadmin")

\* onAuthStateChanged reports the current user once on subscription
InitAuth ==
  /\ \E current \in {None, AdminUid}, record \in AdminRecords :
       page = [user |-> {}, loading |-> TRUE, signedIn |-> current,
               record |-> record, logins |-> 0, notify |-> <<current>>,
               cb |-> [pc |-> "idle", firebaseUser |-> None]]
  /\ content = <<>> /\ wc = <<>>
  /\ UsersUnused /\ ReplyUnused /\ HookUnused /\ PureUnused

AuthFrame == UNCHANGED <<content, wc, usersVars, replyVars, hook, pureVars>>

\* login(): signInWithEmailAndPassword resolves, loginService returns the
\* hardcoded isActive: true data and login sets the user
LoginOk(role) ==
  /\ page.signedIn = None /\ page.logins < MaxLogins
  /\ page' = [page EXCEPT !.signedIn = AdminUid, !.user = {AppUser(role)},
                          !.logins = @ + 1,
                          !.notify = Append(@, AdminUid)]
  /\ AuthFrame

\* logout(): await logoutService(); setUser(null)
LogoutOk ==
  /\ page.signedIn # None /\ page.user # {}
  /\ page' = [page EXCEPT !.signedIn = None, !.user = {},
                          !.notify = Append(@, None)]
  /\ AuthFrame

\* the callback is invoked with the next notification and runs to its
\* first await
AuthStateChanged ==
  /\ page.notify # <<>> /\ page.cb.pc \in {"idle", "done"}
  /\ page' = IF Head(page.notify) = None
               THEN [page EXCEPT !.user = {}, !.loading = FALSE,
                                 !.notify = Tail(@),
                                 !.cb = [pc |-> "done", firebaseUser |-> None]]
               ELSE [page EXCEPT !.notify = Tail(@),
                                 !.cb = [pc |-> "getAdminUserData",
                                         firebaseUser |-> Head(page.notify)]]
  /\ AuthFrame

\* getAdminUserData: null when the document is missing or the read fails
GetAdminUserData(record, readOk) ==
  IF readOk /\ record.exists THEN {record} ELSE {}

\* await getAdminUserData settles
GetAdminUserDataSettles(readOk) ==
  LET adminData == GetAdminUserData(page.record, readOk)
  IN /\ page.cb.pc = "getAdminUserData"
     /\ page' =
          IF adminData = {}
            THEN [page EXCEPT !.user = {HardcodedUser}, !.loading = FALSE,
                              !.cb.pc = "done"]
          ELSE IF page.record.isActive
            THEN [page EXCEPT !.user = {AppUser(page.record.role)},
                              !.loading = FALSE, !.cb.pc = "done"]
          ELSE [page EXCEPT !.user = {}, !.cb.pc = "logoutService"]
     /\ AuthFrame

\* await logoutService() resolves in the inactive branch
LogoutServiceOk ==
  /\ page.cb.pc = "logoutService"
  /\ page' = [page EXCEPT !.signedIn = None, !.loading = FALSE, !.cb.pc = "done",
                          !.notify = IF page.signedIn = None THEN @
                                     ELSE Append(@, None)]
  /\ AuthFrame

\* it rejects: the catch of the same try installs the hardcoded user
LogoutServiceFails ==
  /\ page.cb.pc = "logoutService"
  /\ page' = [page EXCEPT !.user = {HardcodedUser}, !.loading = FALSE,
                          !.cb.pc = "done"]
  /\ AuthFrame

NextAuth ==
  \/ \E role \in AdminRoles : LoginOk(role)
  \/ LogoutOk
  \/ AuthStateChanged
  \/ \E readOk \in BOOLEAN : GetAdminUserDataSettles(readOk)
  \/ LogoutServiceOk
  \/ LogoutServiceFails

SpecAuth == InitAuth /\ [][NextAuth]_vars

\* C25: when the signed-in account's adminUsers record has isActive =
\* false, the provider's user is null once the auth-state callback for that
\* sign-in has finished and no notification is pending, also when the
\* sign-out call fails.
C25_InactiveAdminSignedOut ==
  (/\ page.cb.pc = "done" /\ page.cb.firebaseUser # None /\ page.notify = <<>>
   /\ page.record.exists /\ ~page.record.isActive) => page.user = {}

(***************************************************************************)
(* getActiveUsers on its two paths, over the windows getDashboardStats     *)
(* gives it.                                                               *)
(***************************************************************************)
IndexedPath == [updatedAt |-> TRUE, createdAt |-> TRUE, scan |-> TRUE]
FallbackPath == [updatedAt |-> FALSE, createdAt |-> FALSE, scan |-> TRUE]

StatsWindows ==
  {DashboardDateRange(args.range, args.now),
   GetPreviousPeriodRange(args.range, args.now)}

\* C26: for the users collection and each window, getActiveUsers returns
\* the same count when its two indexed range queries succeed and when both
\* fail and the full scan is used.
C26_FallbackSameCount ==
  Returned =>
    \A w \in StatsWindows :
      Cardinality(GetActiveUserIds(args.docs, w.start, w.end, IndexedPath))
        = Cardinality(GetActiveUserIds(args.docs, w.start, w.end, FallbackPath))

(***************************************************************************)
(* The percentage change computed at three call sites: the hooks           *)
(* useDailyUsage and useDailyActiveUsers over the halves of their series,  *)
(* and getSystemEngagement over the totals of two periods.                 *)
(***************************************************************************)
MaxSeriesLen == 4
MaxPointValue == 2
MaxEngagement == 5

\* Math.floor(data.length / 2)
MidPoint(data) == Len(data) \div 2
\* data.slice(0, midPoint) summed
FirstHalf(data) == SumValues(SubSeq(data, 1, MidPoint(data)))
\* data.slice(midPoint) summed
SecondHalf(data) == SumValues(SubSeq(data, MidPoint(data) + 1, Len(data)))

\* Math.round((num / den) * 1000) / 10 for den > 0: tenths of a percent,
\* halves rounded up.
RoundToTenth(num, den) == Rat((2000 * num + den) \div (2 * den), 10)

\* useDailyUsage: calculatePercentageChange(current, previous)
CalculatePercentageChange(current, previous) ==
  IF previous = 0 THEN (IF current > 0 THEN Rat(100, 1) ELSE Rat(0, 1))
  ELSE Rat((current - previous) * 100, previous)

\* useDailyUsage: percentageChange
PercentageChange(data) ==
  IF FirstHalf(data) > 0
    THEN CalculatePercentageChange(SecondHalf(data), FirstHalf(data))
    ELSE Rat(0, 1)

\* useDailyActiveUsers: change
DailyActiveUsersChange(data) ==
  IF FirstHalf(data) > 0
    THEN RoundToTenth(SecondHalf(data) - FirstHalf(data), FirstHalf(data))
    ELSE (IF SecondHalf(data) > 0 THEN Rat(100, 1) ELSE Rat(0, 1))

\* getSystemEngagement: change
SystemEngagementChange(total, prevTotal) ==
  IF prevTotal > 0
    THEN RoundToTenth(total - prevTotal, prevTotal)
    ELSE (IF total > 0 THEN Rat(100, 1) ELSE Rat(0, 1))

SeriesUpTo(n) == UNION {[1..k -> [value : 0..MaxPointValue]] : k \in 0..n}

InitChange ==
  /\ \/ args \in [site : {"useDailyUsage", "useDailyActiveUsers"},
                  data : SeriesUpTo(MaxSeriesLen)]
     \/ args \in [site : {"getSystemEngagement"},
                  total : 0..MaxEngagement, prevTotal : 0..MaxEngagement]
  /\ ret = <<>>
  /\ UsersUnused /\ ContentUnused /\ ReplyUnused /\ HookUnused

CallChange ==
  /\ ~Returned
  /\ ret' = << CASE args.site = "useDailyUsage" -> PercentageChange(args.data)
                 [] args.site = "useDailyActiveUsers" ->
                      DailyActiveUsersChange(args.data)
                 [] OTHER ->
                      SystemEngagementChange(args.total, args.prevTotal) >>
  /\ UNCHANGED <<args, usersVars, contentVars, replyVars, hook>>

NextChange == CallChange

SpecChange == InitChange /\ [][NextChange]_vars

\* The baseline and the current value a call site compares.
BaselineOf(a) ==
  IF a.site = "getSystemEngagement" THEN a.prevTotal ELSE FirstHalf(a.data)
CurrentOf(a) ==
  IF a.site = "getSystemEngagement" THEN a.total ELSE SecondHalf(a.data)

\* C27: at each of the three call sites, when the baseline (previous period
\* or first half of the series) is 0 the reported change is 100 if the
\* current value is positive and 0 if it is 0.
C27_ZeroBaselineContract ==
  (Returned /\ BaselineOf(args) = 0) =>
    Result = (IF CurrentOf(args) > 0 THEN Rat(100, 1) ELSE Rat(0, 1))

(***************************************************************************)
(* The current and the previous window of the last_7_days range, in        *)
(* dashboardService and in analyticsService.getSystemEngagement.           *)
(***************************************************************************)
\* getSystemEngagement: previousStart, previousEnd from calculateDateRange
EngagementPreviousPeriod(range, now) ==
  LET current == CalculateDateRange(range, now)
      duration == Duration(current.start, current.end)
      previousEnd == SetHours(MinusDuration(current.start, OneMs), EndOfDay)
      previousStart == SetHours(MinusDuration(previousEnd, duration), 0)
  IN [start |-> previousStart, end |-> previousEnd]

\* The calendar days a window touches.
CalendarDays(w) == w.end.day - w.start.day + 1

PreviousOf(resolver, range, now) ==
  IF resolver = "dashboard" THEN GetPreviousPeriodRange(range, now)
  ELSE EngagementPreviousPeriod(range, now)

\* C28: for last_7_days the current window covers exactly 7 calendar days,
\* and the previous window has the same number of calendar days, ends one
\* millisecond before the current start, starts at 00:00:00.000 and does
\* not overlap the current window.
C28_SevenDayWindows ==
  (Returned /\ args.range = "last_7_days"
            /\ args.resolver \in {"dashboard", "analytics"}) =>
    LET prev == PreviousOf(args.resolver, args.range, args.now)
    IN /\ CalendarDays(Result) = 7
       /\ CalendarDays(prev) = CalendarDays(Result)
       /\ prev.end = MinusDuration(Result.start, OneMs)
       /\ prev.start.ms = 0
       /\ Before(prev.end, Result.start)

(***************************************************************************)
(* analyticsService.getArticleFavoritesCount as a process: the users read, *)
(* then the batch loop.  wc is the call's frame: n user documents in the   *)
(* snapshot (numbered in snapshot order), the loop index i, and for every  *)
(* user the state of its favoriteArticles lookup and the number of reads   *)
(* issued for it.                                                          *)
(***************************************************************************)
BatchSize == 10
MaxFavUsers == 12

Min(a, b) == IF a <= b THEN a ELSE b

\* userDocs.slice(i, i + batchSize), as positions in the snapshot.
BatchAt(i, n) == (i + 1)..Min(i + BatchSize, n)

InFlight(w) == {u \in 1..w.n : w.lookup[u] = "inflight"}
Settled(w) == {u \in 1..w.n : w.lookup[u] \in {"ok", "failed"}}

InitFavorites ==
  /\ \E n \in 0..MaxFavUsers :
       wc = [pc |-> "users", n |-> n, i |-> 0,
             lookup |-> [u \in 1..n |-> "waiting"],
             issued |-> [u \in 1..n |-> 0]]
  /\ content = <<>> /\ page = None
  /\ UsersUnused /\ ReplyUnused /\ HookUnused /\ PureUnused

FavoritesFrame == UNCHANGED <<content, page, usersVars, replyVars, hook, pureVars>>

\* The loop from its test at index i up to await Promise.all: batch.map
\* issues the read of every user of the slice; past the last user the
\* function returns.
EnterLoopAt(w, i) ==
  IF i < w.n
    THEN [w EXCEPT !.pc = "batch", !.i = i,
                   !.lookup = [u \in 1..w.n |->
                                 IF u \in BatchAt(i, w.n) THEN "inflight" ELSE @[u]],
                   !.issued = [u \in 1..w.n |->
                                 IF u \in BatchAt(i, w.n) THEN @[u] + 1 ELSE @[u]]]
    ELSE [w EXCEPT !.pc = "done", !.i = i]

\* await getDocs(usersRef) resolves.
UsersSnapshotOk ==
  /\ wc.pc = "users"
  /\ wc' = EnterLoopAt(wc, 0)
  /\ FavoritesFrame

\* await getDocs(usersRef) rejects: the outer catch returns [].
UsersSnapshotFails ==
  /\ wc.pc = "users"
  /\ wc' = [wc EXCEPT !.pc = "failed"]
  /\ FavoritesFrame

\* One user's getDocs(favoritesRef) resolves: its favorites are counted.
LookupOk(u) ==
  /\ wc.pc = "batch" /\ u \in InFlight(wc)
  /\ wc' = [wc EXCEPT !.lookup[u] = "ok"]
  /\ FavoritesFrame

\* One user's getDocs(favoritesRef) rejects: the inner catch skips the user.
LookupFails(u) ==
  /\ wc.pc = "batch" /\ u \in InFlight(wc)
  /\ wc' = [wc EXCEPT !.lookup[u] = "failed"]
  /\ FavoritesFrame

\* A loop that goes on as soon as one lookup of the batch has settled.
PromiseAnyResolves ==
  /\ wc.pc = "batch"
  /\ BatchAt(wc.i, wc.n) \cap Settled(wc) # {}
  /\ wc' = EnterLoopAt(wc, wc.i + BatchSize)
  /\ FavoritesFrame

\* await Promise.all(...) resolves once every lookup of the batch has
\* settled; i += batchSize and the loop goes on.
PromiseAllResolves ==
  /\ wc.pc = "batch"
  /\ BatchAt(wc.i, wc.n) \subseteq Settled(wc)
  /\ wc' = EnterLoopAt(wc, wc.i + BatchSize)
  /\ FavoritesFrame

NextFavorites ==
  \/ UsersSnapshotOk
  \/ UsersSnapshotFails
  \/ \E u \in 1..MaxFavUsers : LookupOk(u)
  \/ \E u \in 1..MaxFavUsers : LookupFails(u)
  \/ PromiseAllResolves

SpecFavorites == InitFavorites /\ [][NextFavorites]_vars

\* C29: at most 10 favoriteArticles lookups are in flight; the lookups
\* issued so far are those of the consecutive batches of at most 10 up to
\* the current one, and every user of an earlier batch has settled; no user
\* is looked up twice, and when the function returns after the users read
\* succeeded every user has been looked up exactly once, whatever lookups
\* failed.
C29_BatchedLookups ==
  /\ Cardinality(InFlight(wc)) <= BatchSize
  /\ \A u \in 1..wc.n : wc.issued[u] <= 1
  /\ wc.pc = "batch" =>
       /\ wc.i % BatchSize = 0
       /\ \A u \in 1..wc.n :
            /\ wc.issued[u] = 1 <=> u <= wc.i + BatchSize
            /\ u <= wc.i => u \in Settled(wc)
            /\ u \in InFlight(wc) => u \in BatchAt(wc.i, wc.n)
  /\ wc.pc = "done" =>
       \A u \in 1..wc.n : wc.issued[u] = 1 /\ u \in Settled(wc)

C29_Witness ==
  /\ wc.pc = "done" /\ wc.n > BatchSize
  /\ wc.lookup[1] = "failed" /\ wc.lookup[2] = "ok"
  /\ wc.lookup[wc.n] = "ok"
  /\ \A u \in 1..wc.n : wc.issued[u] = 1

(***************************************************************************)
(* articleService.getArticles and educationContentService.                 *)
(* getEducationContent.  A collection maps document ids to [stamp], the    *)
(* set holding the instant of the ordering field (createdAt for articles,  *)
(* publishedAt for videos), empty when the field is absent.  An instant is *)
(* [day, ms].  env says which reads succeed.                               *)
(***************************************************************************)
MaxListedDocs == 2
MaxListedDay == 2
ListedIds == 1..MaxListedDocs
ListedStamps == {{}} \cup {{[day |-> d, ms |-> m]} : d \in 1..MaxListedDay, m \in {0, 1}}

\* formatDate(timestamp): the YYYY-MM-DD day of the instant, today's day for
\* a missing one.  Days are numbered, so that localeCompare on the strings
\* is the comparison of the numbers.
FormatDate(stamp, today) ==
  IF stamp = {} THEN today ELSE (CHOOSE t \in stamp : TRUE).day

\* mapFirestoreArticleToContentItem / mapFirestoreEducationContentToContentItem
MapToContentItem(kind, id, doc, today) ==
  [id |-> id, kind |-> kind, lastUpdated |-> FormatDate(doc.stamp, today)]

RECURSIVE ScanIds(_, _)
\* getDocs(collectionRef): every document, in document-id order.
ScanIds(docs, from) ==
  IF from > MaxListedDocs THEN <<>>
  ELSE (IF from \in DOMAIN docs THEN <<from>> ELSE <<>>) \o ScanIds(docs, from + 1)

\* a sorts before b under orderBy(field, "desc"): later instant first, equal
\* instants by document id.
StampDescBefore(docs, a, b) ==
  LET ta == CHOOSE t \in docs[a].stamp : TRUE
      tb == CHOOSE t \in docs[b].stamp : TRUE
  IN Before(tb, ta) \/ (ta = tb /\ a < b)

RECURSIVE InsertStampDesc(_, _, _)
InsertStampDesc(docs, sorted, id) ==
  IF sorted = <<>> THEN <<id>>
  ELSE IF StampDescBefore(docs, Head(sorted), id)
         THEN <<Head(sorted)>> \o InsertStampDesc(docs, Tail(sorted), id)
         ELSE <<id>> \o sorted

RECURSIVE OrderedIds(_, _)
\* getDocs(query(ref, orderBy(field, "desc"))): the documents that have the
\* field, latest first.
OrderedIds(docs, ids) ==
  IF ids = <<>> THEN <<>>
  ELSE LET rest == OrderedIds(docs, Tail(ids))
       IN IF docs[Head(ids)].stamp = {} THEN rest
          ELSE InsertStampDesc(docs, rest, Head(ids))

RECURSIVE InsertLastUpdatedDesc(_, _)
\* Stable insertion for sort((a, b) => b.lastUpdated.localeCompare(a.lastUpdated)).
InsertLastUpdatedDesc(sorted, item) ==
  IF sorted = <<>> THEN <<item>>
  ELSE IF Head(sorted).lastUpdated >= item.lastUpdated
         THEN <<Head(sorted)>> \o InsertLastUpdatedDesc(Tail(sorted), item)
         ELSE <<item>> \o sorted

RECURSIVE SortLastUpdatedDesc(_)
SortLastUpdatedDesc(items) ==
  IF items = <<>> THEN <<>>
  ELSE InsertLastUpdatedDesc(SortLastUpdatedDesc(SubSeq(items, 1, Len(items) - 1)),
                             items[Len(items)])

KindOfList(fn) == IF fn = "getArticles" THEN "article" ELSE "video"

\* getArticles() / getEducationContent(): the list returned, the number of
\* getDocs calls made, and whether the function threw.
GetContentList(fn, docs, env, today) ==
  LET ids == IF env.ordered THEN OrderedIds(docs, ScanIds(docs, 1))
             ELSE ScanIds(docs, 1)
      items == [i \in 1..Len(ids) |->
                  MapToContentItem(KindOfList(fn), ids[i], docs[ids[i]], today)]
  IN IF env.ordered THEN [thrown |-> FALSE, reads |-> 1, items |-> items]
     ELSE IF env.scan
       THEN [thrown |-> FALSE, reads |-> 2, items |-> SortLastUpdatedDesc(items)]
     ELSE [thrown |-> TRUE, reads |-> 2, items |-> <<>>]

ListedCollections ==
  UNION {[s -> [stamp : ListedStamps]] : s \in SUBSET ListedIds}

InitContentList ==
  /\ args \in [fn : {"getArticles", "getEducationContent"},
               docs : ListedCollections,
               env : [ordered : BOOLEAN, scan : BOOLEAN],
               today : {MaxListedDay}]
  /\ ret = <<>>
  /\ UsersUnused /\ ContentUnused /\ ReplyUnused /\ HookUnused

CallGetContentList ==
  /\ ~Returned
  /\ ret' = <<GetContentList(args.fn, args.docs, args.env, args.today)>>
  /\ UNCHANGED <<args, usersVars, contentVars, replyVars, hook>>

NextContentList == CallGetContentList

SpecContentList == InitContentList /\ [][NextContentList]_vars

\* C30: when the ordered query fails and the scan succeeds, getArticles and
\* getEducationContent make exactly one further read and return the items,
\* in the order, that the ordered query would have returned for the same
\* collection.
C30_FallbackSameList ==
  (Returned /\ ~args.env.ordered /\ args.env.scan) =>
    /\ Result.reads = 2
    /\ ~Result.thrown
    /\ Result.items =
         GetContentList(args.fn, args.docs, [ordered |-> TRUE, scan |-> TRUE],
                        args.today).items
====
